---- MODULE Spec2Model ----
(***************************************************************************)
(* BranchGuard rule evaluation engine.                                     *)
(*                                                                         *)
(* The model follows src/src/services/evaluate.ts (second version of the   *)
(* file, from line 261), the external_status check and its pending store   *)
(* (src/unnamed/part_011), the check-run helpers (src/unnamed/part_008)    *)
(* and the check_run.completed handler (src/src/handlers/check-run.ts).    *)
(*                                                                         *)
(* One repository, one pull request and one head commit are modelled.      *)
(* Every awaited remote call is one step; the synchronous code between two *)
(* awaits belongs to the step of the call that precedes it.                *)
(*                                                                         *)
(* Spec     the engine with its environment: passes, the handler, other    *)
(*          apps' check runs, the clock, failing calls and restarts.       *)
(* LiveSpec the engine under fair scheduling, for progress properties.     *)
(* SpecES   ExternalStatusCheck.execute alone, over all its inputs.        *)
(*                                                                         *)
(* The components the engine calls into have specifications of their own,  *)
(* in which the engine is at rest:                                         *)
(* SpecComment  the sticky comment (src/src/services/retry.ts from line    *)
(*              222) under concurrent passes.                              *)
(* SpecRetry    withRetry (src/src/services/retry.ts, lines 1-101).        *)
(* SpecCache    TtlCache (src/unnamed/part_010).                           *)
(* SpecFP       FilePresenceCheck.execute over its inputs.                 *)
(* SpecPair     FilePairCheck.execute over its inputs.                     *)
(* SpecAge      BranchAgeCheck.execute over its inputs.                    *)
(* SpecGate     ApprovalGateCheck.execute over its inputs.                 *)
(* SpecClassify execute and resolveIfReady on the same remote state.       *)
(* SpecNames    rule names against the schema's pattern, and their check   *)
(*              names.                                                     *)
(*                                                                         *)
(* The webhook handlers that call the engine:                              *)
(* SpecBatch    the batch loop of the bulk re-evaluations.                 *)
(* SpecHook     the deliveries for one pull request and what each leaves   *)
(*              on the remote side.                                        *)
(* SpecHandler  check_run.completed over a store with evaluations of       *)
(*              several commits and repositories.                          *)
(* SpecCalls    the remote requests of one trigger, inside and outside     *)
(*              withRetry, with one of them answered 429 or 5xx.           *)
(***************************************************************************)
EXTENDS Integers, Sequences, FiniteSets, TLC

(***************************************************************************)
(* Bounds of the model                                                     *)
(***************************************************************************)
\* the clock advances at most this many ticks
MaxTicks == 2
\* at most this many remote calls fail (after the retries are exhausted)
MaxFaults == 2
\* required_checks lists of at most this length in the classification spec
MaxRequired == 2

\* one tick of the clock is one minute, in milliseconds as Date.now() counts
TickMs == 60 * 1000

(***************************************************************************)
(* Texts.  A title or summary is a record: a fixed head (the literal part  *)
(* of the template), the list of names joined into it, and a number.       *)
(***************************************************************************)
Text(head, names, n) == [head |-> head, names |-> names, n |-> n]

\* an absent optional text (undefined)
Undefined == Text("undefined", <<>>, 0)

\* result.title.startsWith("Waiting for:")
startsWithWaitingFor(title) == title.head = "Waiting for:"

CheckResult(conclusion, title, summary) ==
    [conclusion |-> conclusion, title |-> title, summary |-> summary]

\* the value of a promise that resolved to null, or of a result not yet there
NullResult == CheckResult("null", Undefined, Undefined)

(***************************************************************************)
(* Sequence helpers                                                        *)
(***************************************************************************)
Range(s) == {s[i] : i \in DOMAIN s}

(***************************************************************************)
(* Remote check runs of other apps on the head commit.  The response of    *)
(* GET /commits/{ref}/check-runs is a function from check name to the run  *)
(* of that name; a name with no run is Absent.                             *)
(***************************************************************************)
Absent == [status |-> "absent", conclusion |-> "null"]

Run(status, conclusion) == [status |-> status, conclusion |-> conclusion]

\* allRuns.find((r) => r.name === checkName), one run per name
FindRun(allRuns, checkName) ==
    IF checkName \in DOMAIN allRuns THEN allRuns[checkName] ELSE Absent

\* ExternalStatusCheck.getRequiredCheckStatuses
getRequiredCheckStatuses(allRuns, requiredChecks) ==
    [i \in DOMAIN requiredChecks |->
        LET run == FindRun(allRuns, requiredChecks[i]) IN
        IF run = Absent
        THEN [name |-> requiredChecks[i], status |-> "missing", conclusion |-> "null"]
        ELSE IF run.status = "completed"
        THEN [name |-> requiredChecks[i], status |-> "completed",
              conclusion |-> run.conclusion]
        ELSE [name |-> requiredChecks[i], status |-> "pending", conclusion |-> "null"]]

allCompleted(checkStatuses) ==
    \A i \in DOMAIN checkStatuses : checkStatuses[i].status = "completed"

\* only the conclusion "failure" counted as failed
anyFailed_failureOnly(checkStatuses) ==
    \E i \in DOMAIN checkStatuses :
        /\ checkStatuses[i].status = "completed"
        /\ checkStatuses[i].conclusion = "failure"

\* checkStatuses.some((s) => s.status === "completed" && s.conclusion !== "success")
anyFailed(checkStatuses) ==
    \E i \in DOMAIN checkStatuses :
        /\ checkStatuses[i].status = "completed"
        /\ checkStatuses[i].conclusion # "success"

RECURSIVE NamesWhere(_, _)
\* checkStatuses.filter(pred).map((s) => s.name), pred given as the set of
\* (status, is-success) pairs it accepts
NamesWhere(checkStatuses, accept) ==
    IF checkStatuses = <<>> THEN <<>>
    ELSE LET s == Head(checkStatuses)
             hit == <<s.status, s.conclusion = "success">> \in accept
         IN (IF hit THEN <<s.name>> ELSE <<>>) \o NamesWhere(Tail(checkStatuses), accept)

failedChecks(checkStatuses) == NamesWhere(checkStatuses, {<<"completed", FALSE>>})

pendingOrMissing(checkStatuses) ==
    NamesWhere(checkStatuses, {<<"pending", FALSE>>, <<"missing", FALSE>>})

(***************************************************************************)
(* The pending-evaluation store: a Map, kept in insertion order.           *)
(***************************************************************************)
Owner == "owner"
Repo == "repo"
HeadSha == "abc123"

\* `${owner}/${repo}:${headSha}:${ruleName}`; owner, repo, SHA and rule
\* name contain no ':' so the string determines its four parts
getPendingKey(owner, repo, headSha, ruleName) == <<owner, repo, headSha, ruleName>>

\* position of key in the store, 0 when absent
KeyIndex(store, key) ==
    IF \E i \in DOMAIN store : store[i].key = key
    THEN CHOOSE i \in DOMAIN store : store[i].key = key
    ELSE 0

hasPendingEvaluation(store, key) == KeyIndex(store, key) # 0

\* pendingEvaluations.get(key), for a key that is present
getPendingEvaluation(store, key) == store[KeyIndex(store, key)].evaluation

\* pendingEvaluations.set(key, evaluation): an existing key keeps its place
setPendingEvaluation(store, key, evaluation) ==
    IF KeyIndex(store, key) # 0
    THEN [store EXCEPT ![KeyIndex(store, key)] = [key |-> key, evaluation |-> evaluation]]
    ELSE Append(store, [key |-> key, evaluation |-> evaluation])

\* a delete that removes nothing
deletePendingEvaluation_kept(store, key) == store

\* pendingEvaluations.delete(key)
deletePendingEvaluation(store, key) ==
    LET k == KeyIndex(store, key) IN
    IF k = 0 THEN store
    ELSE [i \in 1..(Len(store) - 1) |-> IF i < k THEN store[i] ELSE store[i + 1]]

RECURSIVE EvaluationsWithPrefix(_, _)
EvaluationsWithPrefix(store, prefix) ==
    IF store = <<>> THEN <<>>
    ELSE (IF SubSeq(Head(store).key, 1, 3) = prefix
          THEN <<Head(store).evaluation>> ELSE <<>>)
         \o EvaluationsWithPrefix(Tail(store), prefix)

\* keys that start with `${owner}/${repo}:${headSha}:`
getPendingEvaluationsForSha(store, owner, repo, headSha) ==
    EvaluationsWithPrefix(store, <<owner, repo, headSha>>)

\* clearPendingEvaluations; also what a process restart leaves
clearPendingEvaluations == <<>>

(***************************************************************************)
(* external_status                                                         *)
(***************************************************************************)
\* an execute that keeps waiting while the store holds an entry for the rule
execute_stored(rule, headSha, allRuns, store) ==
    LET requiredChecks == rule.required_checks
        checkStatuses == getRequiredCheckStatuses(allRuns, requiredChecks)
        key == getPendingKey(Owner, Repo, headSha, rule.name)
    IN
    IF hasPendingEvaluation(store, key)
    THEN [result |-> CheckResult("failure",
                        Text("Waiting for:", getPendingEvaluation(store, key).requiredChecks, 0),
                        Text("Required checks are still pending:",
                             getPendingEvaluation(store, key).requiredChecks,
                             rule.timeout_minutes)),
          store |-> store]
    ELSE IF allCompleted(checkStatuses) /\ ~anyFailed(checkStatuses)
    THEN [result |-> CheckResult("success",
                        Text("All required checks passed", <<>>, 0),
                        Text("Required checks:", requiredChecks, 0)),
          store |-> store]
    ELSE IF anyFailed(checkStatuses)
    THEN [result |-> CheckResult("failure",
                        Text("Required check failed", <<failedChecks(checkStatuses)[1]>>, 0),
                        Text("The following required checks did not pass:",
                             failedChecks(checkStatuses), 0)),
          store |-> store]
    ELSE [result |-> CheckResult("failure",
                        Text("Waiting for:", pendingOrMissing(checkStatuses), 0),
                        Text("Required checks are still pending:",
                             pendingOrMissing(checkStatuses), rule.timeout_minutes)),
          store |-> store]

\* ExternalStatusCheck.execute: the result and the store it leaves
execute(rule, headSha, allRuns, store) ==
    LET requiredChecks == rule.required_checks
        timeoutMinutes == rule.timeout_minutes
        checkStatuses == getRequiredCheckStatuses(allRuns, requiredChecks)
        key == getPendingKey(Owner, Repo, headSha, rule.name)
    IN
    IF allCompleted(checkStatuses) /\ ~anyFailed(checkStatuses)
    THEN [result |-> CheckResult("success",
                        Text("All required checks passed", <<>>, 0),
                        Text("Required checks:", requiredChecks, 0)),
          store |-> deletePendingEvaluation(store, key)]
    ELSE IF anyFailed(checkStatuses)
    THEN [result |-> CheckResult("failure",
                        Text("Required check failed", <<failedChecks(checkStatuses)[1]>>, 0),
                        Text("The following required checks did not pass:",
                             failedChecks(checkStatuses), 0)),
          store |-> deletePendingEvaluation(store, key)]
    ELSE [result |-> CheckResult("failure",
                        Text("Waiting for:", pendingOrMissing(checkStatuses), 0),
                        Text("Required checks are still pending:",
                             pendingOrMissing(checkStatuses), timeoutMinutes)),
          store |-> store]

\* the deadline test with >= for >
timedOut_atDeadline(nowMs, evaluation) ==
    nowMs - evaluation.createdAt >= evaluation.timeoutMinutes * 60 * 1000

\* elapsedMs > timeoutMs
timedOut(nowMs, evaluation) ==
    nowMs - evaluation.createdAt > evaluation.timeoutMinutes * 60 * 1000

\* ExternalStatusCheck.resolveIfReady: the result (NullResult for null), the
\* store it leaves, and whether the remote check runs were queried
resolveIfReady(headSha, evaluation, nowMs, allRuns, store) ==
    LET key == getPendingKey(Owner, Repo, headSha, evaluation.ruleName)
        checkStatuses == getRequiredCheckStatuses(allRuns, evaluation.requiredChecks)
    IN
    IF timedOut(nowMs, evaluation)
    THEN [result |-> CheckResult("failure",
                        Text("Timed out waiting for required checks", <<>>, 0),
                        Text("Required checks did not complete within",
                             evaluation.requiredChecks, evaluation.timeoutMinutes)),
          store |-> deletePendingEvaluation(store, key),
          queried |-> FALSE]
    ELSE IF allCompleted(checkStatuses) /\ ~anyFailed(checkStatuses)
    THEN [result |-> CheckResult("success",
                        Text("All required checks passed", <<>>, 0),
                        Text("Required checks:", evaluation.requiredChecks, 0)),
          store |-> deletePendingEvaluation(store, key),
          queried |-> TRUE]
    ELSE IF anyFailed(checkStatuses)
    THEN [result |-> CheckResult("failure",
                        Text("Required check failed", <<failedChecks(checkStatuses)[1]>>, 0),
                        Text("The following required checks did not pass:",
                             failedChecks(checkStatuses), 0)),
          store |-> deletePendingEvaluation(store, key),
          queried |-> TRUE]
    ELSE [result |-> NullResult, store |-> store, queried |-> TRUE]

(***************************************************************************)
(* Rules, pull-request contexts and the file matcher                       *)
(***************************************************************************)
\* the pull requests of the model: base branch and changed files
PullRequests ==
    {<<"release", {"frontend/app.ts", "package.json"}>>,
     <<"dev", {"package.json"}>>,
     <<"main", {}>>,
     <<"main", {"frontend/app.ts", "package.json"}>>,
     <<"main", {"frontend/app.ts", "package.json", "package-lock.json"}>>}

\* picomatch(pattern, { dot: true })(file), for the patterns the rules use
picomatch(pattern, file) ==
    CASE pattern = "frontend/**" -> file = "frontend/app.ts"
      [] pattern = "package.json" -> file = "package.json"
      [] pattern = "**" -> TRUE
      [] OTHER -> file = pattern

\* hasMatchingFiles
hasMatchingFiles(files, include, exclude) ==
    \E file \in files :
        /\ \E i \in DOMAIN include : picomatch(include[i], file)
        /\ ~(\E i \in DOMAIN exclude : picomatch(exclude[i], file))

\* `${CHECK_NAME_PREFIX}/${ruleName}`, for the rule names of the model
checkRunName(ruleName) ==
    CASE ruleName = "lint-check" -> "branch-guard/lint-check"
      [] ruleName = "manifest-check" -> "branch-guard/manifest-check"
      [] ruleName = "lockfile-check" -> "branch-guard/lockfile-check"
      [] ruleName = "migration-sync" -> "branch-guard/migration-sync"

CONFIG_CHECK_NAME == "branch-guard/config"

\* rule.failure_message: absent, or a title and/or a summary
NoFailureMessage == [present |-> FALSE, title |-> Undefined, summary |-> Undefined]

FailureMessage(title, summary) == [present |-> TRUE, title |-> title, summary |-> summary]

CustomTitle == Text("Custom fail title", <<>>, 0)
CustomSummary == Text("Custom fail summary", <<>>, 0)

ExternalStatusRule(name, branches, required, fm, notify) ==
    [name |-> name, check_type |-> "external_status", branches |-> branches,
     include |-> <<"frontend/**">>, exclude |-> <<>>,
     required_checks |-> required, timeout_minutes |-> 1,
     companion |-> <<>>, mode |-> "any",
     failure_message |-> fm, notify |-> notify]

FilePairRule(name, branches, companion, mode, fm, notify) ==
    [name |-> name, check_type |-> "file_pair", branches |-> branches,
     include |-> <<"package.json">>, exclude |-> <<>>,
     required_checks |-> <<>>, timeout_minutes |-> 0,
     companion |-> companion, mode |-> mode,
     failure_message |-> fm, notify |-> notify]

\* the configuration documents of the model: one external_status rule, or
\* two file_pair rules, the second with notify: false in one document
Configs ==
    {<<ExternalStatusRule("lint-check", {"main"}, <<"lint", "typecheck">>, fm, TRUE)>> :
        fm \in {NoFailureMessage, FailureMessage(CustomTitle, CustomSummary),
                FailureMessage(Undefined, CustomSummary)}}
    \cup
    {<<FilePairRule("manifest-check", {"main"}, <<"package-lock.json">>, "any", fm, TRUE),
       FilePairRule("lockfile-check", {"main", "dev"}, <<"package-lock.json">>, "any",
                    NoFailureMessage, fm.title # Undefined)>> :
        fm \in {FailureMessage(CustomTitle, Undefined), FailureMessage(Undefined, CustomSummary)}}

\* FilePairCheck.execute taking every mode for "any"
executeFilePair_any(rule, changedFiles) ==
    LET companions == rule.companion
        changedCompanions == SelectSeq(companions, LAMBDA c : c \in changedFiles)
        missingCompanions == SelectSeq(companions, LAMBDA c : c \notin changedFiles)
    IN
    IF Len(changedCompanions) > 0
    THEN CheckResult("success",
                     Text("Companion file(s) updated", <<>>, 0),
                     Text("Required companion file(s) were updated:", changedCompanions, 0))
    ELSE CheckResult("failure",
                     Text("Missing companion file update", <<>>, 0),
                     Text("require the following companion file(s) to also be updated:",
                          missingCompanions, 0))

\* FilePairCheck.execute
executeFilePair(rule, changedFiles) ==
    LET companions == rule.companion
        changedCompanions == SelectSeq(companions, LAMBDA c : c \in changedFiles)
        missingCompanions == SelectSeq(companions, LAMBDA c : c \notin changedFiles)
        passed == IF rule.mode = "all"
                  THEN Len(missingCompanions) = 0
                  ELSE Len(changedCompanions) > 0
    IN
    IF passed
    THEN CheckResult("success",
                     Text("Companion file(s) updated", <<>>, 0),
                     Text("Required companion file(s) were updated:", changedCompanions, 0))
    ELSE CheckResult("failure",
                     Text("Missing companion file update", <<>>, 0),
                     Text("require the following companion file(s) to also be updated:",
                          missingCompanions, 0))

\* the override applied whatever the conclusion is
applyFailureMessage_always(rule, result) ==
    IF rule.failure_message.present
    THEN [result EXCEPT
            !.title = IF rule.failure_message.title # Undefined
                      THEN rule.failure_message.title ELSE @,
            !.summary = IF rule.failure_message.summary # Undefined
                        THEN rule.failure_message.summary ELSE @]
    ELSE result

\* evaluateSingleRule, lines 443-447: the failure_message override
applyFailureMessage(rule, result) ==
    IF result.conclusion = "failure" /\ rule.failure_message.present
    THEN [result EXCEPT
            !.title = IF rule.failure_message.title # Undefined
                      THEN rule.failure_message.title ELSE @,
            !.summary = IF rule.failure_message.summary # Undefined
                        THEN rule.failure_message.summary ELSE @]
    ELSE result

\* evaluateSingleRule, line 451: the result is a wait, not a verdict
isPendingResult(rule, result) ==
    rule.check_type = "external_status" /\ startsWithWaitingFor(result.title)

(***************************************************************************)
(* Check runs of this app on the head commit (services/check-runs.ts).     *)
(* checkRuns maps a check name to the runs of that name, oldest first; a   *)
(* run's id is its name and position.                                      *)
(***************************************************************************)
NoId == [name |-> "", n |-> 0]

RunId(name, n) == [name |-> name, n |-> n]

NoOutput == [title |-> Undefined, summary |-> Undefined]

Output(title, summary) == [title |-> title, summary |-> summary]

\* findCheckRun that never finds the existing run
findCheckRun_none(runs, checkName) == NoId

\* findCheckRun: the most recent run of that name, or null
findCheckRun(runs, checkName) ==
    IF Len(runs[checkName]) > 0 THEN RunId(checkName, Len(runs[checkName])) ELSE NoId

\* createCheckRun: the runs afterwards (the new run's id is the last position)
createCheckRun(runs, checkName, status, conclusion, output) ==
    [runs EXCEPT ![checkName] = Append(@,
        [status |-> status,
         conclusion |-> IF status = "completed" THEN conclusion ELSE "null",
         output |-> output])]

\* updateCheckRun: status, conclusion and output are replaced.  A PATCH that
\* carries no output leaves what is shown to the platform; nothing reads the
\* output of a run that is not completed, and the model drops it.
updateCheckRun(runs, id, status, conclusion, output) ==
    [runs EXCEPT ![id.name][id.n] =
        [status |-> status,
         conclusion |-> IF status = "completed" THEN conclusion ELSE "null",
         output |-> output]]

(***************************************************************************)
(* State                                                                   *)
(***************************************************************************)
VARIABLES
    config,             \* the loaded configuration: a sequence of rules
    pr,                 \* the PullRequestContext of the current pass
    phase,              \* evaluateRules: "idle", "running", "done"
    tasks,              \* one evaluateSingleRule promise per rule
    errPc,              \* postErrorCheck of the rejected rule in turn
    errDone,            \* rejected rules the error loop has dealt with
    errorFailures,      \* rules whose "Internal error" check was posted
    reqs,               \* outbound requests of the current pass
    checkRuns,          \* this app's check runs on the head commit
    pendingEvaluations, \* the in-memory pending-evaluation store
    allRuns,            \* other apps' check runs on the head commit
    now,                \* Date.now()
    comment,            \* the sticky comment: "none", "failure" or "success" body
    handed,             \* what the pass handed to the Notification Manager
    handler,            \* the check_run.completed handler in flight
    faults              \* remote calls that have failed so far

\* the components the engine calls into, each with a specification of its own
VARIABLES
    comments,           \* the issue comments of the pull request, oldest first
    notifier,           \* the Notification Manager calls in flight, one per pass
    retry,              \* one withRetry call: options, loop position, last error
    cache,              \* one TtlCache: ttlMs, store, the clock and the last set per key
    ctx,                \* the CheckContext handed to a check type's execute
    returned            \* the CheckResult that execute returned

\* the webhook handlers that call the engine, each with a specification of its own
VARIABLES
    bulk,               \* one bulk re-evaluation: repositories, batch loop, evaluations
    hook                \* webhook deliveries for one pull request and what they left

engineVars == <<config, pr, phase, tasks, errPc, errDone, errorFailures, reqs, checkRuns,
                pendingEvaluations, allRuns, now, comment, handed, handler, faults>>

subVars == <<comments, notifier, retry, cache, ctx, returned>>

hookVars == <<bulk, hook>>

vars == <<engineVars, subVars, hookVars>>

\* the value of a component's variable in a specification that leaves it out
Unused == <<>>

\* the rules of the loaded configuration, by position
RuleIds == DOMAIN config

\* names of the check runs other apps report
ExternalNames == {"lint", "typecheck"}

\* states of another app's check run
ExternalRuns ==
    [n \in ExternalNames |->
        IF n = "lint"
        THEN {Absent, Run("completed", "success"), Run("completed", "failure")}
        ELSE {Absent, Run("completed", "success")}]

RuleNames == {"lint-check", "manifest-check", "lockfile-check"}

\* names of this app's rule check runs
OwnCheckNames == {checkRunName(n) : n \in RuleNames}

Task(pc, run, raw, result, value) ==
    [pc |-> pc, run |-> run, raw |-> raw, result |-> result, value |-> value]

\* a rule that is not part of the pass
NoTask == Task("none", NoId, NullResult, NullResult, "none")

Settled(t) == t.pc \in {"none", "fulfilled", "rejected"}

IdleHandler == [pc |-> "idle", evals |-> <<>>, result |-> NullResult]

NoComment == "none"

\* nothing handed to the Notification Manager (yet)
NotHanded == [call |-> "none", failures |-> <<>>]

NoErr == [pc |-> "find", existing |-> NoId]

NoPr == [number |-> 1, headSha |-> HeadSha, baseBranch |-> "main", changedFiles |-> {}]

\* the handlers are left out of the engine's and the components' specifications
HookIdle ==
    /\ bulk = Unused
    /\ hook = Unused

\* the components are left out of the engine's specifications
SubIdle ==
    /\ HookIdle
    /\ comments = Unused
    /\ notifier = Unused
    /\ retry = Unused
    /\ cache = Unused
    /\ ctx = Unused
    /\ returned = Unused

Init ==
    /\ config \in Configs
    /\ pr = NoPr
    /\ phase = "idle"
    /\ tasks = [i \in RuleIds |-> NoTask]
    /\ errPc = NoErr
    /\ errDone = {}
    /\ errorFailures = {}
    /\ reqs = {}
    /\ checkRuns = [n \in {checkRunName(config[i].name) : i \in DOMAIN config} |-> <<>>]
    /\ pendingEvaluations = <<>>
    /\ allRuns = [n \in ExternalNames |-> Absent]
    /\ now = 0
    /\ comment = NoComment
    /\ handed = NotHanded
    /\ handler = IdleHandler
    /\ faults = 0
    /\ SubIdle


\* the engine at rest with no configuration, for the components' own
\* specifications
EngineIdle ==
    /\ config = <<>>
    /\ pr = NoPr
    /\ phase = "idle"
    /\ tasks = <<>>
    /\ errPc = NoErr
    /\ errDone = {}
    /\ errorFailures = {}
    /\ reqs = {}
    /\ checkRuns = <<>>
    /\ pendingEvaluations = <<>>
    /\ allRuns = [n \in ExternalNames |-> Absent]
    /\ now = 0
    /\ comment = NoComment
    /\ handed = NotHanded
    /\ handler = IdleHandler
    /\ faults = 0

(***************************************************************************)
(* evaluateRules                                                           *)
(***************************************************************************)
\* evaluateRules without the base-branch filter
applicableRules_all(rules, baseBranch) == DOMAIN rules

\* config.rules.filter((rule) => rule.on.branches.includes(pr.baseBranch))
applicableRules(rules, baseBranch) ==
    {i \in DOMAIN rules : baseBranch \in rules[i].branches}

Request(kind, ruleName) == <<kind, ruleName>>

\* a pull-request trigger calls evaluateRules: lines 284-302, up to the first
\* await of every evaluateSingleRule
StartPass(baseBranch, changedFiles) ==
    /\ phase = "idle"
    /\ pr' = [number |-> 1, headSha |-> HeadSha, baseBranch |-> baseBranch,
              changedFiles |-> changedFiles]
    /\ tasks' = [i \in RuleIds |->
                    IF i \in applicableRules(config, baseBranch)
                    THEN Task("find", NoId, NullResult, NullResult, "none")
                    ELSE NoTask]
    /\ phase' = IF applicableRules(config, baseBranch) = {} THEN "done" ELSE "running"
    /\ errPc' = NoErr
    /\ errDone' = {}
    /\ errorFailures' = {}
    /\ reqs' = {}
    /\ handed' = NotHanded
    /\ UNCHANGED <<subVars, hookVars>>
    /\ UNCHANGED <<config, checkRuns, pendingEvaluations, allRuns, now, comment,
                   handler, faults>>

\* evaluateSingleRule, lines 383-411: findCheckRun answers
TaskFind(i) ==
    LET rule == config[i]
        name == checkRunName(rule.name)
        filesMatch == hasMatchingFiles(pr.changedFiles, rule.include, rule.exclude)
        existing == findCheckRun(checkRuns, name)
    IN
    /\ phase = "running"
    /\ tasks[i].pc = "find"
    /\ reqs' = reqs \cup {Request("find", rule.name)}
    /\ tasks' = [tasks EXCEPT ![i] =
                    IF ~filesMatch
                    THEN IF existing # NoId
                         THEN [@ EXCEPT !.pc = "autopass", !.run = existing]
                         ELSE [@ EXCEPT !.pc = "fulfilled", !.value = "null"]
                    ELSE [@ EXCEPT !.pc = "inprog", !.run = existing]]
    /\ UNCHANGED <<subVars, hookVars>>
    /\ UNCHANGED <<config, pr, phase, errPc, errDone, errorFailures, checkRuns,
                   pendingEvaluations, allRuns, now, comment, handed, handler, faults>>

\* evaluateSingleRule, lines 389-405: the existing check is auto-passed
TaskAutoPass(i) ==
    /\ phase = "running"
    /\ tasks[i].pc = "autopass"
    /\ reqs' = reqs \cup {Request("update", config[i].name)}
    /\ checkRuns' = updateCheckRun(checkRuns, tasks[i].run, "completed", "success",
                        Output(Text("Rule not applicable", <<>>, 0),
                               Text("No matching files changed in this PR.", <<>>, 0)))
    /\ tasks' = [tasks EXCEPT ![i] = [@ EXCEPT !.pc = "fulfilled", !.value = "null"]]
    /\ UNCHANGED <<subVars, hookVars>>
    /\ UNCHANGED <<config, pr, phase, errPc, errDone, errorFailures,
                   pendingEvaluations, allRuns, now, comment, handed, handler, faults>>

\* evaluateSingleRule, lines 414-430: the check is set or created in_progress
TaskInProgress(i) ==
    LET name == checkRunName(config[i].name) IN
    /\ phase = "running"
    /\ tasks[i].pc = "inprog"
    /\ IF tasks[i].run # NoId
       THEN /\ reqs' = reqs \cup {Request("update", config[i].name)}
            /\ checkRuns' = updateCheckRun(checkRuns, tasks[i].run, "in_progress",
                                           "null", NoOutput)
            /\ tasks' = [tasks EXCEPT ![i] = [@ EXCEPT !.pc = "execute"]]
       ELSE /\ reqs' = reqs \cup {Request("create", config[i].name)}
            /\ checkRuns' = createCheckRun(checkRuns, name, "in_progress", "null", NoOutput)
            /\ tasks' = [tasks EXCEPT ![i] =
                            [@ EXCEPT !.pc = "execute",
                                      !.run = RunId(name, Len(checkRuns[name]) + 1)]]
    /\ UNCHANGED <<subVars, hookVars>>
    /\ UNCHANGED <<config, pr, phase, errPc, errDone, errorFailures,
                   pendingEvaluations, allRuns, now, comment, handed, handler, faults>>

\* getCheck(rule.check_type).execute(...): the result and the store it leaves
executeCheck(rule, context, runs, store) ==
    IF rule.check_type = "external_status"
    THEN execute(rule, context.headSha, runs, store)
    ELSE [result |-> executeFilePair(rule, context.changedFiles), store |-> store]

\* the PendingEvaluation evaluateSingleRule stores, lines 455-464
PendingEvaluation(rule, headSha, checkRunId, createdAt) ==
    [owner |-> Owner, repo |-> Repo, headSha |-> headSha, ruleName |-> rule.name,
     requiredChecks |-> rule.required_checks, checkRunId |-> checkRunId,
     createdAt |-> createdAt, timeoutMinutes |-> rule.timeout_minutes]

\* evaluateSingleRule, lines 432-464: the check type answers; the override is
\* applied and a waiting external_status result is stored as pending
TaskExecute(i) ==
    LET rule == config[i]
        out == executeCheck(rule, pr, allRuns, pendingEvaluations)
        result == applyFailureMessage(rule, out.result)
        key == getPendingKey(Owner, Repo, pr.headSha, rule.name)
    IN
    /\ phase = "running"
    /\ tasks[i].pc = "execute"
    /\ reqs' = IF rule.check_type = "external_status"
               THEN reqs \cup {Request("query", rule.name)} ELSE reqs
    /\ IF isPendingResult(rule, result)
       THEN /\ pendingEvaluations' =
                  setPendingEvaluation(out.store, key,
                      PendingEvaluation(rule, pr.headSha, tasks[i].run, now))
            /\ tasks' = [tasks EXCEPT ![i] =
                            [@ EXCEPT !.pc = "pendwrite", !.raw = out.result,
                                      !.result = result]]
       ELSE /\ pendingEvaluations' = out.store
            /\ tasks' = [tasks EXCEPT ![i] =
                            [@ EXCEPT !.pc = "finalwrite", !.raw = out.result,
                                      !.result = result]]
    /\ UNCHANGED <<subVars, hookVars>>
    /\ UNCHANGED <<config, pr, phase, errPc, errDone, errorFailures, checkRuns,
                   allRuns, now, comment, handed, handler, faults>>

\* evaluateSingleRule, lines 466-480: the waiting check stays in_progress
TaskPendingWrite(i) ==
    /\ phase = "running"
    /\ tasks[i].pc = "pendwrite"
    /\ reqs' = reqs \cup {Request("update", config[i].name)}
    /\ checkRuns' = updateCheckRun(checkRuns, tasks[i].run, "in_progress", "null",
                        Output(tasks[i].result.title, tasks[i].result.summary))
    /\ tasks' = [tasks EXCEPT ![i] = [@ EXCEPT !.pc = "fulfilled", !.value = "null"]]
    /\ UNCHANGED <<subVars, hookVars>>
    /\ UNCHANGED <<config, pr, phase, errPc, errDone, errorFailures,
                   pendingEvaluations, allRuns, now, comment, handed, handler, faults>>

\* evaluateSingleRule, lines 483-499: the final status write
TaskFinalWrite(i) ==
    /\ phase = "running"
    /\ tasks[i].pc = "finalwrite"
    /\ reqs' = reqs \cup {Request("update", config[i].name)}
    /\ checkRuns' = updateCheckRun(checkRuns, tasks[i].run, "completed",
                        tasks[i].result.conclusion,
                        Output(tasks[i].result.title, tasks[i].result.summary))
    /\ tasks' = [tasks EXCEPT ![i] = [@ EXCEPT !.pc = "fulfilled", !.value = "result"]]
    /\ UNCHANGED <<subVars, hookVars>>
    /\ UNCHANGED <<config, pr, phase, errPc, errDone, errorFailures,
                   pendingEvaluations, allRuns, now, comment, handed, handler, faults>>

\* the awaited call of evaluateSingleRule raises (a remote call fails after
\* its retries, or the check type throws): the promise is rejected
TaskThrow(i) ==
    LET rule == config[i]
        kind == CASE tasks[i].pc = "find" -> "find"
                  [] tasks[i].pc = "execute" -> "query"
                  [] tasks[i].pc = "inprog" /\ tasks[i].run = NoId -> "create"
                  [] OTHER -> "update"
    IN
    /\ phase = "running"
    /\ tasks[i].pc \in {"find", "autopass", "inprog", "execute", "pendwrite", "finalwrite"}
    /\ faults < MaxFaults
    /\ faults' = faults + 1
    /\ reqs' = IF kind = "query" /\ rule.check_type # "external_status"
               THEN reqs ELSE reqs \cup {Request(kind, rule.name)}
    /\ tasks' = [tasks EXCEPT ![i] = [@ EXCEPT !.pc = "rejected"]]
    /\ UNCHANGED <<subVars, hookVars>>
    /\ UNCHANGED <<config, pr, phase, errPc, errDone, errorFailures, checkRuns,
                   pendingEvaluations, allRuns, now, comment, handed, handler>>

\* Promise.all for Promise.allSettled: the first rejection ends the wait
AllSettled_failFast ==
    \/ \E i \in RuleIds : tasks[i].pc = "rejected"
    \/ \A i \in RuleIds : tasks[i].pc \in {"none", "fulfilled", "rejected"}

\* await Promise.allSettled(...) has returned
AllSettled == \A i \in RuleIds : Settled(tasks[i])

Rejected == {i \in RuleIds : tasks[i].pc = "rejected"}

\* the rejected rule the loop of lines 307-332 is at
ErrRule == CHOOSE i \in Rejected \ errDone : \A j \in Rejected \ errDone : i <= j

InternalErrorOutput ==
    Output(Text("Internal error", <<>>, 0),
           Text("An error occurred while evaluating this rule.", <<>>, 0))

\* postErrorCheck, line 513: findCheckRun answers
ErrFind ==
    /\ phase = "running"
    /\ AllSettled
    /\ Rejected \ errDone # {}
    /\ errPc.pc = "find"
    /\ reqs' = reqs \cup {Request("find", config[ErrRule].name)}
    /\ errPc' = [pc |-> "write",
                 existing |-> findCheckRun(checkRuns, checkRunName(config[ErrRule].name))]
    /\ UNCHANGED <<subVars, hookVars>>
    /\ UNCHANGED <<config, pr, phase, tasks, errDone, errorFailures, checkRuns,
                   pendingEvaluations, allRuns, now, comment, handed, handler, faults>>

\* postErrorCheck, lines 515-540, and lines 319-327 of the loop
ErrWrite ==
    LET rule == config[ErrRule]
        name == checkRunName(rule.name)
    IN
    /\ phase = "running"
    /\ AllSettled
    /\ Rejected \ errDone # {}
    /\ errPc.pc = "write"
    /\ IF errPc.existing # NoId
       THEN /\ reqs' = reqs \cup {Request("update", rule.name)}
            /\ checkRuns' = updateCheckRun(checkRuns, errPc.existing, "completed",
                                           "failure", InternalErrorOutput)
       ELSE /\ reqs' = reqs \cup {Request("create", rule.name)}
            /\ checkRuns' = createCheckRun(checkRuns, name, "completed", "failure",
                                           InternalErrorOutput)
    /\ errorFailures' = errorFailures \cup {ErrRule}
    /\ errDone' = errDone \cup {ErrRule}
    /\ errPc' = NoErr
    /\ UNCHANGED <<subVars, hookVars>>
    /\ UNCHANGED <<config, pr, phase, tasks, pendingEvaluations, allRuns, now,
                   comment, handed, handler, faults>>

\* postErrorCheck raises: caught and logged, lines 328-330
ErrThrow ==
    LET rule == config[ErrRule]
        kind == IF errPc.pc = "find" THEN "find"
                ELSE IF errPc.existing # NoId THEN "update" ELSE "create"
    IN
    /\ phase = "running"
    /\ AllSettled
    /\ Rejected \ errDone # {}
    /\ faults < MaxFaults
    /\ faults' = faults + 1
    /\ reqs' = reqs \cup {Request(kind, rule.name)}
    /\ errDone' = errDone \cup {ErrRule}
    /\ errPc' = NoErr
    /\ UNCHANGED <<subVars, hookVars>>
    /\ UNCHANGED <<config, pr, phase, tasks, errorFailures, checkRuns,
                   pendingEvaluations, allRuns, now, comment, handed, handler>>

\* evaluatedResults, line 335: fulfilled with a non-null value
evaluatedResults == {i \in RuleIds : tasks[i].pc = "fulfilled" /\ tasks[i].value = "result"}

\* the result that allResults holds for rule i
resultOf(i) ==
    IF i \in errorFailures
    THEN CheckResult("failure", Text("Internal error", <<>>, 0),
                     Text("An error occurred while evaluating this rule.", <<>>, 0))
    ELSE tasks[i].result

\* allResults, line 343
allResults == evaluatedResults \cup errorFailures

\* notifiableFailures without the notify filter
notifiableFailures_all ==
    {i \in allResults : resultOf(i).conclusion = "failure"}

\* notifiableFailures, lines 345-351, as the set of rule ids
notifiableFailures ==
    {i \in allResults : resultOf(i).conclusion = "failure" /\ config[i].notify # FALSE}

FailureSummary(i) ==
    [ruleName |-> config[i].name, title |-> resultOf(i).title,
     summary |-> resultOf(i).summary]

RECURSIVE FailureList(_, _)
\* the failures in the order of allResults: evaluated results, then errors
FailureList(ids, from) ==
    IF from > Len(config) THEN <<>>
    ELSE (IF from \in ids THEN <<FailureSummary(from)>> ELSE <<>>)
         \o FailureList(ids, from + 1)

failureSummaries ==
    FailureList(notifiableFailures \cap evaluatedResults, 1)
    \o FailureList(notifiableFailures \cap errorFailures, 1)

\* lines 353-361 with postOrUpdateFailureComment and updateCommentToSuccess
Notify ==
    /\ phase = "running"
    /\ AllSettled
    /\ Rejected \subseteq errDone
    /\ phase' = "done"
    /\ IF notifiableFailures # {}
       THEN /\ reqs' = reqs \cup {Request("comment", "")}
            /\ handed' = [call |-> "failure", failures |-> failureSummaries]
            /\ comment' = "failure"
       ELSE IF allResults # {}
       THEN /\ reqs' = reqs \cup {Request("comment", "")}
            /\ handed' = [call |-> "success", failures |-> <<>>]
            /\ comment' = IF comment = "failure" THEN "success" ELSE comment
       ELSE UNCHANGED <<reqs, comment, handed>>
    /\ UNCHANGED <<subVars, hookVars>>
    /\ UNCHANGED <<config, pr, tasks, errPc, errDone, errorFailures, checkRuns,
                   pendingEvaluations, allRuns, now, handler, faults>>

\* a comment call raises: caught and logged, the comment is left as it is
NotifyThrow ==
    /\ phase = "running"
    /\ AllSettled
    /\ Rejected \subseteq errDone
    /\ allResults # {}
    /\ faults < MaxFaults
    /\ faults' = faults + 1
    /\ phase' = "done"
    /\ reqs' = reqs \cup {Request("comment", "")}
    /\ handed' = IF notifiableFailures # {}
                 THEN [call |-> "failure", failures |-> failureSummaries]
                 ELSE [call |-> "success", failures |-> <<>>]
    /\ UNCHANGED <<subVars, hookVars>>
    /\ UNCHANGED <<config, pr, tasks, errPc, errDone, errorFailures, checkRuns,
                   pendingEvaluations, allRuns, now, comment, handler>>

\* evaluateRules has resolved: its locals are gone
PassReturn ==
    /\ phase = "done"
    /\ phase' = "idle"
    /\ pr' = NoPr
    /\ tasks' = [i \in RuleIds |-> NoTask]
    /\ errPc' = NoErr
    /\ errDone' = {}
    /\ errorFailures' = {}
    /\ reqs' = {}
    /\ faults' = 0
    /\ handed' = NotHanded
    /\ UNCHANGED <<subVars, hookVars>>
    /\ UNCHANGED <<config, checkRuns, pendingEvaluations, allRuns, now, comment, handler>>

(***************************************************************************)
(* check_run.completed handler                                             *)
(***************************************************************************)
\* a prefix test that no name passes
isOwnCheck_never(completedCheckName) == FALSE

\* completedCheckName.startsWith(CHECK_NAME_PREFIX + "/")
isOwnCheck(completedCheckName) ==
    completedCheckName \in OwnCheckNames \cup {CONFIG_CHECK_NAME}

\* pendingEvals.filter((pe) => pe.requiredChecks.includes(completedCheckName))
relevantEvals(store, headSha, completedCheckName) ==
    SelectSeq(getPendingEvaluationsForSha(store, Owner, Repo, headSha),
              LAMBDA pe : completedCheckName \in Range(pe.requiredChecks))

\* the webhook for a completed check run arrives, lines 14-55
CheckRunCompleted(completedCheckName) ==
    /\ handler.pc = "idle"
    /\ FindRun(allRuns, completedCheckName).status = "completed"
    /\ ~isOwnCheck(completedCheckName)
    /\ relevantEvals(pendingEvaluations, HeadSha, completedCheckName) # <<>>
    /\ handler' = [pc |-> "resolve",
                   evals |-> relevantEvals(pendingEvaluations, HeadSha, completedCheckName),
                   result |-> NullResult]
    /\ UNCHANGED <<subVars, hookVars>>
    /\ UNCHANGED <<config, pr, phase, tasks, errPc, errDone, errorFailures, reqs,
                   checkRuns, pendingEvaluations, allRuns, now, comment, handed, faults>>

\* the rest of the loop after the evaluation in turn
NextEvaluation ==
    IF Len(handler.evals) > 1
    THEN [pc |-> "resolve", evals |-> Tail(handler.evals), result |-> NullResult]
    ELSE IdleHandler

\* lines 56-75: resolveIfReady answers for the evaluation in turn
HandlerResolve ==
    LET evaluation == Head(handler.evals)
        out == resolveIfReady(HeadSha, evaluation, now, allRuns, pendingEvaluations)
    IN
    /\ handler.pc = "resolve"
    /\ pendingEvaluations' = out.store
    /\ handler' = IF out.result # NullResult
                  THEN [handler EXCEPT !.pc = "write", !.result = out.result]
                  ELSE NextEvaluation
    /\ UNCHANGED <<subVars, hookVars>>
    /\ UNCHANGED <<config, pr, phase, tasks, errPc, errDone, errorFailures, reqs,
                   checkRuns, allRuns, now, comment, handed, faults>>

\* lines 76-94: the resolved check run is completed
HandlerWrite ==
    LET evaluation == Head(handler.evals) IN
    /\ handler.pc = "write"
    /\ checkRuns' = updateCheckRun(checkRuns, evaluation.checkRunId, "completed",
                        handler.result.conclusion,
                        Output(handler.result.title, handler.result.summary))
    /\ handler' = NextEvaluation
    /\ UNCHANGED <<subVars, hookVars>>
    /\ UNCHANGED <<config, pr, phase, tasks, errPc, errDone, errorFailures, reqs,
                   pendingEvaluations, allRuns, now, comment, handed, faults>>

\* lines 101-106: the query of resolveIfReady or the update raises; the error
\* is caught and the loop goes on.  A query is made only before the deadline.
HandlerThrow ==
    /\ handler.pc \in {"resolve", "write"}
    /\ handler.pc = "resolve" => ~timedOut(now, Head(handler.evals))
    /\ faults < MaxFaults
    /\ faults' = faults + 1
    /\ handler' = NextEvaluation
    /\ UNCHANGED <<subVars, hookVars>>
    /\ UNCHANGED <<config, pr, phase, tasks, errPc, errDone, errorFailures, reqs,
                   checkRuns, pendingEvaluations, allRuns, now, comment, handed>>

(***************************************************************************)
(* Environment                                                             *)
(***************************************************************************)
\* another app's check run starts, completes or is re-run
ExternalUpdate(name, run) ==
    /\ run # allRuns[name]
    /\ run # Absent
    /\ allRuns' = [allRuns EXCEPT ![name] = run]
    /\ UNCHANGED <<subVars, hookVars>>
    /\ UNCHANGED <<config, pr, phase, tasks, errPc, errDone, errorFailures, reqs,
                   checkRuns, pendingEvaluations, now, comment, handed, handler, faults>>

\* a minute passes.  The clock is read only against the createdAt of a pending
\* evaluation, so it is advanced only while one is waiting for its deadline.
Tick ==
    /\ now < MaxTicks * TickMs
    /\ \E k \in DOMAIN pendingEvaluations : ~timedOut(now, pendingEvaluations[k].evaluation)
    /\ now' = now + TickMs
    /\ UNCHANGED <<subVars, hookVars>>
    /\ UNCHANGED <<config, pr, phase, tasks, errPc, errDone, errorFailures, reqs,
                   checkRuns, pendingEvaluations, allRuns, comment, handed, handler, faults>>

\* the process restarts: the store is empty and nothing is in flight
Restart ==
    /\ pendingEvaluations # <<>> \/ phase = "running" \/ handler.pc # "idle"
    /\ pendingEvaluations' = clearPendingEvaluations
    /\ phase' = "idle"
    /\ pr' = NoPr
    /\ faults' = 0
    /\ tasks' = [i \in RuleIds |-> NoTask]
    /\ errPc' = NoErr
    /\ errDone' = {}
    /\ errorFailures' = {}
    /\ reqs' = {}
    /\ handler' = IdleHandler
    /\ handed' = NotHanded
    /\ UNCHANGED <<subVars, hookVars>>
    /\ UNCHANGED <<config, checkRuns, allRuns, now, comment>>

Next ==
    \/ \E p \in PullRequests : StartPass(p[1], p[2])
    \/ \E i \in RuleIds : TaskFind(i)
    \/ \E i \in RuleIds : TaskAutoPass(i)
    \/ \E i \in RuleIds : TaskInProgress(i)
    \/ \E i \in RuleIds : TaskExecute(i)
    \/ \E i \in RuleIds : TaskPendingWrite(i)
    \/ \E i \in RuleIds : TaskFinalWrite(i)
    \/ \E i \in RuleIds : TaskThrow(i)
    \/ ErrFind
    \/ ErrWrite
    \/ ErrThrow
    \/ Notify
    \/ NotifyThrow
    \/ PassReturn
    \/ \E n \in ExternalNames : CheckRunCompleted(n)
    \/ HandlerResolve
    \/ HandlerWrite
    \/ HandlerThrow
    \/ \E n \in ExternalNames : \E r \in ExternalRuns[n] : ExternalUpdate(n, r)
    \/ Tick
    \/ Restart

Spec == Init /\ [][Next]_vars

(***************************************************************************)
(* The system while the process stays up and the error status, the        *)
(* comment and the handler's calls answer (a rule's evaluation may still   *)
(* raise), under the scheduling the runtime gives it: a promise whose      *)
(* awaited call has answered is continued, a handler in flight runs on,    *)
(* time passes, and the webhook of a completed check run is delivered.     *)
(* Nothing is assumed of the pull-request author or of the other apps.     *)
(***************************************************************************)
PassStep ==
    \/ \E i \in RuleIds :
          \/ TaskFind(i) \/ TaskAutoPass(i) \/ TaskInProgress(i)
          \/ TaskExecute(i) \/ TaskPendingWrite(i) \/ TaskFinalWrite(i)
    \/ ErrFind \/ ErrWrite \/ Notify \/ PassReturn

HandlerStep == HandlerResolve \/ HandlerWrite

Delivery == \E n \in ExternalNames : CheckRunCompleted(n)

Fairness ==
    /\ WF_vars(PassStep)
    /\ WF_vars(HandlerStep)
    /\ WF_vars(Delivery)
    /\ WF_vars(Tick)

NextLive ==
    \/ \E p \in PullRequests : StartPass(p[1], p[2])
    \/ PassStep
    \/ \E i \in RuleIds : TaskThrow(i)
    \/ HandlerStep
    \/ Delivery
    \/ \E n \in ExternalNames : \E r \in ExternalRuns[n] : ExternalUpdate(n, r)
    \/ Tick

LiveSpec == Init /\ [][NextLive]_vars /\ Fairness

(***************************************************************************)
(* ExternalStatusCheck.execute on its own: any list of required names, any *)
(* remote check runs (one per name), a store with or without an entry for  *)
(* the rule.  tasks[1].raw holds the last result.                          *)
(***************************************************************************)
RequiredNames == {"lint", "typecheck", "build"}

\* config.required_checks: lists of names, repetitions included
RequiredLists == UNION {[1..n -> RequiredNames] : n \in 1..MaxRequired}

\* what the check-runs listing can show for a name
RemoteStates ==
    {Absent, Run("queued", "null"), Run("in_progress", "null"),
     Run("completed", "success"), Run("completed", "failure"),
     Run("completed", "neutral")}

ClassifiedRule(required) ==
    ExternalStatusRule("lint-check", {"main"}, required, NoFailureMessage, TRUE)

InitES ==
    /\ config \in {<<ClassifiedRule(required)>> : required \in RequiredLists}
    /\ allRuns \in [RequiredNames -> RemoteStates]
    /\ pendingEvaluations \in
          {<<>>,
           <<[key |-> getPendingKey(Owner, Repo, HeadSha, "lint-check"),
              evaluation |-> PendingEvaluation(config[1], HeadSha,
                                 RunId(checkRunName("lint-check"), 1), 0)]>>}
    /\ pr = NoPr
    /\ phase = "idle"
    /\ tasks = [i \in RuleIds |-> NoTask]
    /\ errPc = NoErr
    /\ errDone = {}
    /\ errorFailures = {}
    /\ reqs = {}
    /\ checkRuns = [n \in {checkRunName("lint-check")} |-> <<>>]
    /\ now = 0
    /\ comment = NoComment
    /\ handed = NotHanded
    /\ handler = IdleHandler
    /\ faults = 0
    /\ SubIdle

\* execute is called (again)
Classify ==
    LET out == execute(config[1], HeadSha, allRuns, pendingEvaluations) IN
    /\ tasks' = [tasks EXCEPT ![1] = [@ EXCEPT !.pc = "classified", !.raw = out.result]]
    /\ pendingEvaluations' = out.store
    /\ UNCHANGED <<subVars, hookVars>>
    /\ UNCHANGED <<config, pr, phase, errPc, errDone, errorFailures, reqs, checkRuns,
                   allRuns, now, comment, handed, handler, faults>>

\* the run of a required name changes
RemoteChange(name, run) ==
    /\ tasks[1].pc = "classified"
    /\ run # allRuns[name]
    /\ allRuns' = [allRuns EXCEPT ![name] = run]
    /\ UNCHANGED <<subVars, hookVars>>
    /\ UNCHANGED <<config, pr, phase, tasks, errPc, errDone, errorFailures, reqs,
                   checkRuns, pendingEvaluations, now, comment, handed, handler, faults>>

NextES ==
    \/ Classify
    \/ \E name \in RequiredNames, run \in RemoteStates : RemoteChange(name, run)

SpecES == InitES /\ [][NextES]_vars

(***************************************************************************)
(* The sticky comment (pr-comment, src/src/services/retry.ts from 180).    *)
(* A comment is [id, body]; a body is [marker, text]: whether it contains  *)
(* COMMENT_MARKER, and which of the texts it holds.  Each pass in flight   *)
(* is one call of postOrUpdateFailureComment or updateCommentToSuccess;    *)
(* every awaited request is one step, so calls of two passes interleave.   *)
(***************************************************************************)
\* at most this many passes notify at the same time
MaxPasses == 2
\* at most this many comments are written by users
MaxUserComments == 1

\* per_page of the comment listing
perPage == 100

Passes == 1..MaxPasses

Body(marker, text) == [marker |-> marker, text |-> text]

buildFailureBody == Body(TRUE, "check(s) failed")

buildSuccessBody == Body(TRUE, "All checks passed")

\* a comment somebody else wrote
UserBody == Body(FALSE, "other")

\* findBotComment found nothing
NoBotComment == [id |-> 0, body |-> Body(FALSE, "")]

\* page number `page` of the listing
CommentPage(list, page) ==
    LET first == (page - 1) * perPage + 1
        last == IF page * perPage < Len(list) THEN page * perPage ELSE Len(list)
    IN  SubSeq(list, first, last)

\* the first comment of the page whose body includes the marker
FirstMarked(pageOf) ==
    IF \E k \in DOMAIN pageOf : pageOf[k].body.marker
    THEN pageOf[CHOOSE k \in DOMAIN pageOf :
                    /\ pageOf[k].body.marker
                    /\ \A j \in 1..(k - 1) : ~pageOf[j].body.marker]
    ELSE NoBotComment

IdleNotifier == [pc |-> "idle", call |-> "none", page |-> 1,
                 existing |-> NoBotComment, logged |-> FALSE]

\* the catch blocks: the error is propagated instead of logged
catchAndLog_rethrow(n) == [n EXCEPT !.pc = "thrown"]

\* the catch blocks of the two public functions: log, return normally
catchAndLog(n) == [n EXCEPT !.pc = "returned", !.logged = TRUE]

\* the comment of that id gets the body
PatchComment(list, id, body) ==
    [k \in DOMAIN list |-> IF list[k].id = id THEN [list[k] EXCEPT !.body = body] ELSE list[k]]

InitComment ==
    /\ EngineIdle
    /\ HookIdle
    /\ comments \in {<<>>, <<[id |-> 1, body |-> UserBody]>>}
    /\ notifier = [c \in Passes |-> IdleNotifier]
    /\ retry = Unused
    /\ cache = Unused
    /\ ctx = Unused
    /\ returned = Unused

\* a pass calls postOrUpdateFailureComment ("failure") or
\* updateCommentToSuccess ("success")
NotifierCall(c, call) ==
    /\ notifier[c].pc = "idle"
    /\ notifier' = [notifier EXCEPT ![c] = [IdleNotifier EXCEPT !.pc = "list", !.call = call]]
    /\ UNCHANGED <<comments, retry, cache, ctx, returned>>
    /\ UNCHANGED <<engineVars, hookVars>>

\* where the function goes once findBotComment has returned
AfterFind(n, existing) ==
    IF n.call = "failure"
    THEN [n EXCEPT !.existing = existing,
                   !.pc = IF existing # NoBotComment THEN "patch" ELSE "post"]
    ELSE IF existing = NoBotComment THEN [n EXCEPT !.pc = "returned"]
    ELSE IF existing.body.text = "All checks passed"
         THEN [n EXCEPT !.existing = existing, !.pc = "returned"]
    ELSE [n EXCEPT !.existing = existing, !.pc = "patch"]

\* findBotComment: one page of the listing answers
ListPage(c) ==
    LET n == notifier[c]
        pageOf == CommentPage(comments, n.page)
        found == FirstMarked(pageOf)
    IN
    /\ n.pc = "list"
    /\ notifier' = [notifier EXCEPT ![c] =
          IF found # NoBotComment THEN AfterFind(n, found)
          ELSE IF Len(pageOf) < perPage THEN AfterFind(n, NoBotComment)
          ELSE [n EXCEPT !.page = n.page + 1]]
    /\ UNCHANGED <<comments, retry, cache, ctx, returned>>
    /\ UNCHANGED <<engineVars, hookVars>>

\* PATCH of the comment found
PatchExisting(c) ==
    LET n == notifier[c] IN
    /\ n.pc = "patch"
    /\ comments' = PatchComment(comments, n.existing.id,
                       IF n.call = "failure" THEN buildFailureBody ELSE buildSuccessBody)
    /\ notifier' = [notifier EXCEPT ![c].pc = "returned"]
    /\ UNCHANGED <<retry, cache, ctx, returned>>
    /\ UNCHANGED <<engineVars, hookVars>>

\* POST of a new comment
PostNew(c) ==
    LET n == notifier[c] IN
    /\ n.pc = "post"
    /\ comments' = Append(comments, [id |-> Len(comments) + 1, body |-> buildFailureBody])
    /\ notifier' = [notifier EXCEPT ![c].pc = "returned"]
    /\ UNCHANGED <<retry, cache, ctx, returned>>
    /\ UNCHANGED <<engineVars, hookVars>>

\* the listing, the PATCH or the POST fails (after its retries)
CommentCallFails(c) ==
    /\ notifier[c].pc \in {"list", "patch", "post"}
    /\ notifier' = [notifier EXCEPT ![c] = catchAndLog(notifier[c])]
    /\ UNCHANGED <<comments, retry, cache, ctx, returned>>
    /\ UNCHANGED <<engineVars, hookVars>>

\* the call has returned and the pass is over; the next pass may notify
NotifierReturn(c) ==
    /\ notifier[c].pc = "returned"
    /\ notifier' = [notifier EXCEPT ![c] = IdleNotifier]
    /\ UNCHANGED <<comments, retry, cache, ctx, returned>>
    /\ UNCHANGED <<engineVars, hookVars>>

\* somebody writes a comment of their own
UserComment ==
    /\ Cardinality({k \in DOMAIN comments : comments[k].body = UserBody}) < MaxUserComments
    /\ comments' = Append(comments, [id |-> Len(comments) + 1, body |-> UserBody])
    /\ UNCHANGED <<notifier, retry, cache, ctx, returned>>
    /\ UNCHANGED <<engineVars, hookVars>>

NextComment ==
    \/ \E c \in Passes, call \in {"failure", "success"} : NotifierCall(c, call)
    \/ \E c \in Passes : ListPage(c)
    \/ \E c \in Passes : PatchExisting(c)
    \/ \E c \in Passes : PostNew(c)
    \/ \E c \in Passes : CommentCallFails(c)
    \/ \E c \in Passes : NotifierReturn(c)
    \/ UserComment

SpecComment == InitComment /\ [][NextComment]_vars

(***************************************************************************)
(* withRetry (src/src/services/retry.ts, lines 1-101).  The wrapped        *)
(* function is the environment: each invocation either resolves with a     *)
(* value or rejects with an error of any status and headers.  An error     *)
(* carries the number of the invocation that raised it, so that two error  *)
(* objects are never the same.  A header that is absent is the empty       *)
(* string (both are falsy).                                                *)
(***************************************************************************)
\* opts.maxRetries is drawn from 0..MaxRetryOpt, or left out
MaxRetryOpt == 2

DEFAULT_MAX_RETRIES == 3

DEFAULT_BASE_DELAY_MS == 1000

RETRYABLE_STATUSES == {429, 500, 502, 503}

\* an option, a status that is undefined
NoOption == -1
NoStatus == 0
NoHeader == ""

\* the statuses the wrapped function rejects with
Statuses == {NoStatus, 403, 404, 429, 500, 502, 503, 504}

RetryAfterValues == {NoHeader, "2", "0", "soon"}

RemainingValues == {NoHeader, "0", "12"}

HttpError(seq, status, responseStatus, retryAfter, remaining) ==
    [seq |-> seq, status |-> status, responseStatus |-> responseStatus,
     headers |-> [retryAfter |-> retryAfter, remaining |-> remaining]]

NoError == HttpError(0, NoStatus, NoStatus, NoHeader, NoHeader)

\* Number(text) of a header value: a finite number, or NaN
NumberOf(text) ==
    CASE text = "2" -> [finite |-> TRUE, n |-> 2]
      [] text = "0" -> [finite |-> TRUE, n |-> 0]
      [] text = "12" -> [finite |-> TRUE, n |-> 12]
      [] text = "" -> [finite |-> TRUE, n |-> 0]
      [] OTHER -> [finite |-> FALSE, n |-> 0]

\* error.status ?? error.response?.status
statusOf(error) ==
    IF error.status # NoStatus THEN error.status ELSE error.responseStatus

isRateLimited403(error) ==
    \/ error.headers.retryAfter # NoHeader
    \/ error.headers.remaining = "0"

\* isRetryable taking every 403 for a rate limit
isRetryable_any403(error) ==
    /\ statusOf(error) # NoStatus
    /\ statusOf(error) \in RETRYABLE_STATUSES \cup {403}

isRetryable(error) ==
    /\ statusOf(error) # NoStatus
    /\ \/ statusOf(error) \in RETRYABLE_STATUSES
       \/ statusOf(error) = 403 /\ isRateLimited403(error)

\* no delay hint: null
NoDelay == -1

\* getRetryAfterMs returning the header's seconds as they are
getRetryAfterMs_seconds(error) ==
    LET seconds == NumberOf(error.headers.retryAfter) IN
    IF error.headers.retryAfter = NoHeader THEN NoDelay
    ELSE IF seconds.finite /\ seconds.n > 0 THEN seconds.n
    ELSE NoDelay

getRetryAfterMs(error) ==
    LET seconds == NumberOf(error.headers.retryAfter) IN
    IF error.headers.retryAfter = NoHeader THEN NoDelay
    ELSE IF seconds.finite /\ seconds.n > 0 THEN seconds.n * 1000
    ELSE NoDelay

RECURSIVE Pow2(_)
Pow2(n) == IF n = 0 THEN 1 ELSE 2 * Pow2(n - 1)

\* retryAfterMs ?? baseDelayMs * Math.pow(2, attempt)
delayMsOf(error, baseDelayMs, attempt) ==
    IF getRetryAfterMs(error) # NoDelay THEN getRetryAfterMs(error)
    ELSE baseDelayMs * Pow2(attempt)

RetryOptions(maxRetries, baseDelayMs) ==
    [maxRetries |-> maxRetries, baseDelayMs |-> baseDelayMs]

maxRetriesOf(opts) ==
    IF opts.maxRetries # NoOption THEN opts.maxRetries ELSE DEFAULT_MAX_RETRIES

baseDelayMsOf(opts) ==
    IF opts.baseDelayMs # NoOption THEN opts.baseDelayMs ELSE DEFAULT_BASE_DELAY_MS

\* the loop gives up one attempt late
lastAttempt_late(attempt, opts) == attempt = maxRetriesOf(opts) + 1

\* attempt === maxRetries
lastAttempt(attempt, opts) == attempt = maxRetriesOf(opts)

InitRetry ==
    /\ EngineIdle
    /\ HookIdle
    /\ comments = Unused
    /\ notifier = Unused
    /\ retry \in {[opts |-> RetryOptions(m, b), pc |-> "call", attempt |-> 0, calls |-> 0,
                   lastError |-> NoError, delayMs |-> 0, value |-> "", thrown |-> NoError] :
                     m \in (0..MaxRetryOpt) \cup {NoOption}, b \in {100, NoOption}}
    /\ cache = Unused
    /\ ctx = Unused
    /\ returned = Unused

\* fn() resolves: withRetry returns its value
FnResolves(value) ==
    /\ retry.pc = "call"
    /\ retry' = [retry EXCEPT !.pc = "returned", !.calls = retry.calls + 1, !.value = value]
    /\ UNCHANGED <<comments, notifier, cache, ctx, returned>>
    /\ UNCHANGED <<engineVars, hookVars>>

\* fn() rejects: the catch block throws the error on, or sets the delay
FnRejects(status, responseStatus, retryAfter, remaining) ==
    LET error == HttpError(retry.calls + 1, status, responseStatus, retryAfter, remaining) IN
    /\ retry.pc = "call"
    /\ retry' =
          IF lastAttempt(retry.attempt, retry.opts) \/ ~isRetryable(error)
          THEN [retry EXCEPT !.pc = "thrown", !.calls = retry.calls + 1,
                             !.lastError = error, !.thrown = error]
          ELSE [retry EXCEPT !.pc = "sleep", !.calls = retry.calls + 1,
                             !.lastError = error,
                             !.delayMs = delayMsOf(error, baseDelayMsOf(retry.opts), retry.attempt)]
    /\ UNCHANGED <<comments, notifier, cache, ctx, returned>>
    /\ UNCHANGED <<engineVars, hookVars>>

\* sleep(delayMs) is over: the next attempt
SleepOver ==
    /\ retry.pc = "sleep"
    /\ retry' = [retry EXCEPT !.pc = "call", !.attempt = retry.attempt + 1]
    /\ UNCHANGED <<comments, notifier, cache, ctx, returned>>
    /\ UNCHANGED <<engineVars, hookVars>>

NextRetry ==
    \/ \E value \in {"ok", "other"} : FnResolves(value)
    \/ \E status \in Statuses, responseStatus \in {NoStatus, 503},
          retryAfter \in RetryAfterValues, remaining \in RemainingValues :
              FnRejects(status, responseStatus, retryAfter, remaining)
    \/ SleepOver

SpecRetry == InitRetry /\ [][NextRetry]_vars

(***************************************************************************)
(* TtlCache (src/unnamed/part_010).  cache.store is the Map: a function    *)
(* from the keys it holds to {value, expiresAt}.  cache.clock is           *)
(* Date.now(); cache.lastSet and cache.got are history: per key the last   *)
(* set since the last clear, and what the last get returned.               *)
(***************************************************************************)
\* the clock of the cache advances at most this many half seconds
MaxCacheTicks == 4

CacheTickMs == 500

CacheKeys == {"config", "tree"}

CacheValues == {"v1", "v2"}

\* ttlSeconds * 1000
ttlMsOf(ttlSeconds) == ttlSeconds * 1000

NeverSet == [set |-> FALSE, value |-> "undefined", at |-> 0]

\* the entry has expired one instant early
expired_early(entry, nowMs) == nowMs >= entry.expiresAt

\* Date.now() > entry.expiresAt
expired(entry, nowMs) == nowMs > entry.expiresAt

\* Map.delete
MapDelete(map, key) == [k \in DOMAIN map \ {key} |-> map[k]]

\* Map.set
MapSet(map, key, entry) == [k \in DOMAIN map \cup {key} |-> IF k = key THEN entry ELSE map[k]]

InitCache ==
    /\ EngineIdle
    /\ HookIdle
    /\ comments = Unused
    /\ notifier = Unused
    /\ retry = Unused
    /\ cache \in {[ttlMs |-> ttlMsOf(ttlSeconds), store |-> <<>>, clock |-> 0,
                   lastSet |-> [k \in CacheKeys |-> NeverSet],
                   got |-> [key |-> "", value |-> "undefined"]] : ttlSeconds \in {0, 1}}
    /\ ctx = Unused
    /\ returned = Unused

\* get(key)
CacheGet(key) ==
    /\ cache' =
          IF key \notin DOMAIN cache.store
          THEN [cache EXCEPT !.got = [key |-> key, value |-> "undefined"]]
          ELSE IF expired(cache.store[key], cache.clock)
          THEN [cache EXCEPT !.store = MapDelete(cache.store, key),
                             !.got = [key |-> key, value |-> "undefined"]]
          ELSE [cache EXCEPT !.got = [key |-> key, value |-> cache.store[key].value]]
    /\ UNCHANGED <<comments, notifier, retry, ctx, returned>>
    /\ UNCHANGED <<engineVars, hookVars>>

\* set(key, value)
CacheSet(key, value) ==
    /\ cache' = [cache EXCEPT
          !.store = MapSet(cache.store, key,
                           [value |-> value, expiresAt |-> cache.clock + cache.ttlMs]),
          !.lastSet[key] = [set |-> TRUE, value |-> value, at |-> cache.clock]]
    /\ UNCHANGED <<comments, notifier, retry, ctx, returned>>
    /\ UNCHANGED <<engineVars, hookVars>>

\* clear()
CacheClear ==
    /\ cache' = [cache EXCEPT !.store = <<>>,
                              !.lastSet = [k \in CacheKeys |-> NeverSet]]
    /\ UNCHANGED <<comments, notifier, retry, ctx, returned>>
    /\ UNCHANGED <<engineVars, hookVars>>

\* time passes
CacheTick ==
    /\ cache.clock < MaxCacheTicks * CacheTickMs
    /\ cache' = [cache EXCEPT !.clock = cache.clock + CacheTickMs]
    /\ UNCHANGED <<comments, notifier, retry, ctx, returned>>
    /\ UNCHANGED <<engineVars, hookVars>>

NextCache ==
    \/ \E key \in CacheKeys : CacheGet(key)
    \/ \E key \in CacheKeys, value \in CacheValues : CacheSet(key, value)
    \/ CacheClear
    \/ CacheTick

SpecCache == InitCache /\ [][NextCache]_vars

(***************************************************************************)
(* file_presence (FilePresenceCheck.execute, src/src/checks/branch-age.ts  *)
(* from line 81, with the allowlist of src/unnamed/part_009).  The two     *)
(* filtered trees are inputs; a tree lists its paths in TreeOrder.  The PR *)
(* description is the list of the lines inside its branch-guard:allow      *)
(* blocks: a line is well formed (rule name, path, optional reason) or it  *)
(* is not, and is then skipped.                                            *)
(***************************************************************************)
\* at most this many lines in the allow blocks of a PR description
MaxLines == 2

TreeOrder == <<"a.sql", "b.sql", "c.sql">>

TreeFiles == Range(TreeOrder)

\* the paths of the set, as the tree lists them
TreeList(files) == SelectSeq(TreeOrder, LAMBDA f : f \in files)

AllowLine(ruleName, filePath, reason) ==
    [wellFormed |-> TRUE, ruleName |-> ruleName, filePath |-> filePath, reason |-> reason]

\* a line that LINE_REGEX does not match
MalformedLine == [wellFormed |-> FALSE, ruleName |-> "", filePath |-> "", reason |-> ""]

AllowLines ==
    {AllowLine(n, f, r) : n \in {"migration-sync", "other-rule"},
                          f \in {"a.sql", "b.sql", "*.sql"},
                          r \in {"", "consolidated"}}
    \cup {MalformedLine}

\* pr.body: undefined, or a text with these lines in its allow blocks
PrBody(present, lines) == [present |-> present, lines |-> lines]

PrBodies ==
    {PrBody(FALSE, <<>>)} \cup
    {PrBody(TRUE, lines) : lines \in UNION {[1..n -> AllowLines] : n \in 0..MaxLines}}

AllowlistEntry(line) ==
    [ruleName |-> line.ruleName, filePath |-> line.filePath, reason |-> line.reason]

RECURSIVE MapEntries(_)
MapEntries(lines) ==
    IF lines = <<>> THEN <<>>
    ELSE <<AllowlistEntry(Head(lines))>> \o MapEntries(Tail(lines))

parseAllowlist(prBody) ==
    IF ~prBody.present THEN <<>>
    ELSE MapEntries(SelectSeq(prBody.lines, LAMBDA line : line.wellFormed))

\* the entries of every rule
getAllowedFilesForRule_anyRule(prBody, ruleName) == parseAllowlist(prBody)

getAllowedFilesForRule(prBody, ruleName) ==
    SelectSeq(parseAllowlist(prBody), LAMBDA e : e.ruleName = ruleName)

NoDetails == [missing |-> <<>>, allowed |-> <<>>]

FilePresenceResult(conclusion, title, summary, details) ==
    [conclusion |-> conclusion, title |-> title, summary |-> summary, details |-> details]

\* FilePresenceCheck.execute, once both trees are there
executeFilePresence(context) ==
    LET baseFiles == context.baseFiles
        headSet == Range(context.headFiles)
        allMissingFiles == SelectSeq(baseFiles, LAMBDA f : f \notin headSet)
        allowedEntries == getAllowedFilesForRule(context.prBody, context.rule.name)
        allowedPaths == {allowedEntries[k].filePath : k \in DOMAIN allowedEntries}
        trulyMissing == SelectSeq(allMissingFiles, LAMBDA f : f \notin allowedPaths)
        allowedMissing == SelectSeq(allMissingFiles, LAMBDA f : f \in allowedPaths)
        allowedList == SelectSeq(allowedEntries, LAMBDA e : e.filePath \in Range(allMissingFiles))
    IN
    IF Len(allMissingFiles) = 0
    THEN FilePresenceResult("success",
             Text("All files in sync", <<>>, 0),
             Text("matching file(s) are present on this branch", <<>>, Len(baseFiles)),
             NoDetails)
    ELSE IF Len(trulyMissing) = 0
    THEN FilePresenceResult("success",
             Text("All files in sync (allowed deletion(s))", <<>>, Len(allowedMissing)),
             Text("All matching files are present or explicitly allowed.", <<>>, 0),
             [missing |-> <<>>, allowed |-> allowedList])
    ELSE FilePresenceResult("failure",
             Text("Missing file(s) from", <<>>, Len(trulyMissing)),
             Text("This branch is missing files that exist on", <<>>, 0),
             [missing |-> trulyMissing,
              allowed |-> IF Len(allowedMissing) > 0 THEN allowedList ELSE <<>>])

InitFP ==
    /\ EngineIdle
    /\ HookIdle
    /\ comments = Unused
    /\ notifier = Unused
    /\ retry = Unused
    /\ cache = Unused
    /\ ctx \in {[rule |-> [name |-> "migration-sync"], prBody |-> body,
                 baseFiles |-> TreeList(base), headFiles |-> TreeList(head),
                 called |-> FALSE] :
                    body \in PrBodies, base \in SUBSET TreeFiles, head \in SUBSET TreeFiles}
    /\ returned = Unused

\* the check runs
ExecuteFilePresence ==
    /\ ~ctx.called
    /\ ctx' = [ctx EXCEPT !.called = TRUE]
    /\ returned' = executeFilePresence(ctx)
    /\ UNCHANGED <<comments, notifier, retry, cache>>
    /\ UNCHANGED <<engineVars, hookVars>>

NextFP == ExecuteFilePresence

SpecFP == InitFP /\ [][NextFP]_vars

(***************************************************************************)
(* file_pair (FilePairCheck.execute, src/src/checks/file-pair.ts) over a   *)
(* rule with any list of companions and either mode, and any set of        *)
(* changed files.                                                          *)
(***************************************************************************)
\* companion lists of at most this length
MaxCompanions == 2

PairFiles == {"package.json", "package-lock.json", "yarn.lock"}

Companions == {"package-lock.json", "yarn.lock", "pnpm-lock.yaml"}

\* companion: an array of at least one path
CompanionLists == UNION {[1..n -> Companions] : n \in 1..MaxCompanions}

\* mode: "any" or "all", "any" when left out
modeOrDefault(mode) == IF mode = "undefined" THEN "any" ELSE mode

InitPair ==
    /\ EngineIdle
    /\ HookIdle
    /\ comments = Unused
    /\ notifier = Unused
    /\ retry = Unused
    /\ cache = Unused
    /\ ctx \in {[rule |-> FilePairRule("manifest-check", {"main"}, companion,
                                       modeOrDefault(mode), NoFailureMessage, TRUE),
                 configMode |-> mode,
                 changedFiles |-> changed, called |-> FALSE] :
                    companion \in CompanionLists, mode \in {"undefined", "any", "all"},
                    changed \in SUBSET PairFiles}
    /\ returned = Unused

\* the check runs
ExecuteFilePair ==
    /\ ~ctx.called
    /\ ctx' = [ctx EXCEPT !.called = TRUE]
    /\ returned' = executeFilePair(ctx.rule, ctx.changedFiles)
    /\ UNCHANGED <<comments, notifier, retry, cache>>
    /\ UNCHANGED <<engineVars, hookVars>>

NextPair == ExecuteFilePair

SpecPair == InitPair /\ [][NextPair]_vars

(***************************************************************************)
(* branch_age (BranchAgeCheck.execute, src/src/checks/branch-age.ts 1-49). *)
(* The compare request has answered; the committer date of the merge base  *)
(* is absent, a text that is no date (its time is NaN), or a date, given   *)
(* by its time in ms.  ctx.now is Date.now().                              *)
(***************************************************************************)
\* max_age_days is drawn from 1..MaxAgeDays
MaxAgeDays == 3

\* 1000 * 60 * 60 * 24
DayMs == 1000 * 60 * 60 * 24

NoDate == [present |-> FALSE, valid |-> FALSE, time |-> 0]

InvalidDate == [present |-> TRUE, valid |-> FALSE, time |-> 0]

DateAt(time) == [present |-> TRUE, valid |-> TRUE, time |-> time]

NaNDays == [finite |-> FALSE, n |-> 0]

\* Math.floor((Date.now() - new Date(mergeBaseDate).getTime()) / DayMs)
ageDaysOf(nowMs, mergeBaseDate) ==
    IF mergeBaseDate.valid
    THEN [finite |-> TRUE, n |-> (nowMs - mergeBaseDate.time) \div DayMs]
    ELSE NaNDays

\* the limit compared strictly
withinLimit_strict(ageDays, max_age_days) == ageDays.finite /\ ageDays.n < max_age_days

\* ageDays <= max_age_days
withinLimit(ageDays, max_age_days) == ageDays.finite /\ ageDays.n <= max_age_days

\* BranchAgeCheck.execute, once the compare request has answered
executeBranchAge(context) ==
    LET ageDays == ageDaysOf(context.now, context.mergeBaseDate) IN
    IF ~context.mergeBaseDate.present
    THEN CheckResult("failure",
                     Text("Unable to determine branch age", <<>>, 0),
                     Text("Could not read the merge base commit date", <<>>, 0))
    ELSE IF withinLimit(ageDays, context.rule.max_age_days)
    THEN CheckResult("success",
                     Text("Branch is day(s) old", <<>>, ageDays.n),
                     Text("within the limit", <<>>, context.rule.max_age_days))
    ELSE CheckResult("failure",
                     Text("Branch is day(s) old (max)", <<>>, ageDays.n),
                     Text("exceeding the limit. Consider rebasing onto the latest",
                          <<context.baseBranch>>, context.rule.max_age_days))

\* the times between merge base and now that the model draws: whole days,
\* and a millisecond or half a day to either side of them
Elapsed ==
    {d * DayMs + delta : d \in 0..(MaxAgeDays + 2),
                         delta \in {0 - 1, 0, 1, DayMs \div 2, DayMs - 1}}

InitAge ==
    /\ EngineIdle
    /\ HookIdle
    /\ comments = Unused
    /\ notifier = Unused
    /\ retry = Unused
    /\ cache = Unused
    /\ ctx \in {[rule |-> [name |-> "stale-branch", max_age_days |-> max],
                 baseBranch |-> "main", now |-> nowMs, mergeBaseDate |-> date,
                 called |-> FALSE] :
                    max \in 1..MaxAgeDays,
                    nowMs \in {(MaxAgeDays + 3) * DayMs},
                    date \in {NoDate, InvalidDate}
                             \cup {DateAt((MaxAgeDays + 3) * DayMs - e) : e \in Elapsed}}
    /\ returned = Unused

\* the check runs
ExecuteBranchAge ==
    /\ ~ctx.called
    /\ ctx' = [ctx EXCEPT !.called = TRUE]
    /\ returned' = executeBranchAge(ctx)
    /\ UNCHANGED <<comments, notifier, retry, cache>>
    /\ UNCHANGED <<engineVars, hookVars>>

NextAge == ExecuteBranchAge

SpecAge == InitAge /\ [][NextAge]_vars

(***************************************************************************)
(* approval_gate (ApprovalGateCheck, src/unnamed/part_011 from line 225).  *)
(* The inputs are the rule, the reviews as the listing returns them        *)
(* (oldest first) and the answer of the team-members lookup of each        *)
(* required team.  A login is a text; toLowerCase is tabulated on the      *)
(* logins of the model.  returned.requests are the requests execute made.  *)
(***************************************************************************)
\* at most this many reviews on the pull request
MaxReviews == 3

toLowerCase(login) ==
    CASE login = "Alice" -> "alice"
      [] login = "Bob" -> "bob"
      [] OTHER -> login

Review(login, state) == [user |-> [login |-> login], state |-> state]

\* the reviews a listing may hold
ReviewValues ==
    {Review(login, state) : login \in {"Alice", "alice"},
                            state \in {"APPROVED", "CHANGES_REQUESTED", "COMMENTED", "DISMISSED"}}
    \cup {Review("bob", state) : state \in {"APPROVED", "CHANGES_REQUESTED"}}

\* the answer of GET /orgs/{org}/teams/{team_slug}/members
Members(logins) == [status |-> 200, members |-> logins]

LookupError(status) == [status |-> status, members |-> {}]

ApprovalGateRule(required_teams, required_users, mode, auto_request_reviewers) ==
    [name |-> "needs-approval", required_teams |-> required_teams,
     required_users |-> required_users, mode |-> mode,
     auto_request_reviewers |-> auto_request_reviewers]

\* latestByUser.set(username, ...): a Map keeps the place of a key it has
MapPut(latest, username, state) ==
    IF \E k \in DOMAIN latest : latest[k].user = username
    THEN [k \in DOMAIN latest |->
            IF latest[k].user = username THEN [user |-> username, state |-> state]
            ELSE latest[k]]
    ELSE Append(latest, [user |-> username, state |-> state])

\* only a COMMENTED review skipped
skipsReview_commented(state) == state = "COMMENTED"

\* review.state === "COMMENTED" || review.state === "DISMISSED": continue
skipsReview(state) == state = "COMMENTED" \/ state = "DISMISSED"

\* getLatestReviews, the loop over the listing
RECURSIVE latestReviews(_, _)
latestReviews(allReviews, latest) ==
    IF allReviews = <<>> THEN latest
    ELSE LET review == Head(allReviews)
             username == toLowerCase(review.user.login)
         IN  latestReviews(Tail(allReviews),
                 IF skipsReview(review.state) THEN latest
                 ELSE MapPut(latest, username, review.state))

\* names.map((n) => `@${n}`)
At(names) == [k \in DOMAIN names |-> <<"@", names[k]>>]

\* getTeamMembersMap: the member set of a team; empty on 404 and 403
teamMemberSet(answer) ==
    IF answer.status = 200 THEN {toLowerCase(m) : m \in answer.members} ELSE {}

\* getTeamMembersMap rethrows every other error
teamLookupThrows(rule, teams) ==
    \E k \in DOMAIN rule.required_teams :
        teams[rule.required_teams[k]].status \notin {200, 404, 403}

Requirement(label, validApprovers) == [label |-> label, validApprovers |-> validApprovers]

RECURSIVE MapTeams(_, _)
MapTeams(requiredTeams, teams) ==
    IF requiredTeams = <<>> THEN <<>>
    ELSE <<Requirement(<<"@", Head(requiredTeams)>>, teamMemberSet(teams[Head(requiredTeams)]))>>
         \o MapTeams(Tail(requiredTeams), teams)

RECURSIVE MapUsers(_)
MapUsers(requiredUsers) ==
    IF requiredUsers = <<>> THEN <<>>
    ELSE <<Requirement(<<"@", Head(requiredUsers)>>, {toLowerCase(Head(requiredUsers))})>>
         \o MapUsers(Tail(requiredUsers))

RECURSIVE MapField(_, _)
MapField(list, field) ==
    IF list = <<>> THEN <<>> ELSE <<Head(list)[field]>> \o MapField(Tail(list), field)

\* mode all decided like mode any
passedFor_any(mode, satisfied, missing) == Len(satisfied) > 0

\* mode === "any" ? satisfied.length > 0 : missing.length === 0
passedFor(mode, satisfied, missing) ==
    IF mode = "any" THEN Len(satisfied) > 0 ELSE Len(missing) = 0

evaluateApprovals(reviews, requiredTeams, requiredUsers, teams, mode) ==
    LET approvers == MapField(SelectSeq(reviews, LAMBDA r : r.state = "APPROVED"), "user")
        blockers == MapField(SelectSeq(reviews, LAMBDA r : r.state = "CHANGES_REQUESTED"), "user")
        approverSet == Range(approvers)
        requirements == MapTeams(requiredTeams, teams) \o MapUsers(requiredUsers)
        satisfied == SelectSeq(requirements, LAMBDA req : req.validApprovers \cap approverSet # {})
        missing == SelectSeq(requirements, LAMBDA req : req.validApprovers \cap approverSet = {})
    IN
    IF Len(blockers) > 0
    THEN [passed |-> FALSE, approvers |-> <<>>, missingRequirements |-> <<>>,
          blockers |-> blockers]
    ELSE [passed |-> passedFor(mode, satisfied, missing),
          approvers |-> SelectSeq(approvers,
                            LAMBDA a : \E k \in DOMAIN requirements :
                                          a \in requirements[k].validApprovers),
          missingRequirements |-> MapField(missing, "label"),
          blockers |-> <<>>]

GateResult(conclusion, title, summary, requests) ==
    [conclusion |-> conclusion, title |-> title, summary |-> summary, requests |-> requests]

\* the requests of one execute: the review listing, one lookup per team
gateRequests(rule) ==
    {[kind |-> "GET reviews", who |-> ""]}
    \cup {[kind |-> "GET team members", who |-> rule.required_teams[k]] :
             k \in DOMAIN rule.required_teams}

\* ApprovalGateCheck.execute, once its requests have answered
executeApprovalGate(context) ==
    LET rule == context.rule
        reviews == latestReviews(context.reviews, <<>>)
        status == evaluateApprovals(reviews, rule.required_teams, rule.required_users,
                                    context.teams, rule.mode)
    IN
    IF teamLookupThrows(rule, context.teams)
    THEN GateResult("error", Undefined, Undefined, gateRequests(rule))
    ELSE IF Len(status.blockers) > 0
    THEN GateResult("failure",
                    Text("Changes requested", <<>>, 0),
                    Text("The following reviewer(s) have requested changes:", At(status.blockers), 0),
                    gateRequests(rule))
    ELSE IF status.passed
    THEN GateResult("success",
                    Text("Approval requirements met", <<>>, 0),
                    Text("Approved by:", At(status.approvers), 0),
                    gateRequests(rule))
    ELSE GateResult("failure",
                    Text("Approval required from:", status.missingRequirements, 0),
                    Text("No approving reviews from the required teams/users.", <<>>, 0),
                    gateRequests(rule))

\* the rules of the model with the answers of their team lookups
GateSetups ==
    {[teams |-> <<>>, users |-> <<"Alice">>, lookup |-> LookupError(404)],
     [teams |-> <<>>, users |-> <<"alice", "bob">>, lookup |-> LookupError(404)]}
    \cup {[teams |-> <<"core">>, users |-> <<>>, lookup |-> a] :
             a \in {Members({"Bob"}), LookupError(404), LookupError(403), LookupError(500)}}
    \cup {[teams |-> <<"core">>, users |-> <<"bob">>, lookup |-> a] :
             a \in {Members({"Alice"}), LookupError(404)}}

InitGate ==
    /\ EngineIdle
    /\ HookIdle
    /\ comments = Unused
    /\ notifier = Unused
    /\ retry = Unused
    /\ cache = Unused
    /\ ctx \in {[rule |-> ApprovalGateRule(s.teams, s.users, mode, auto),
                 reviews |-> reviews,
                 teams |-> [t \in {"core"} |-> s.lookup],
                 called |-> FALSE] :
                    s \in GateSetups, mode \in {"any", "all"}, auto \in BOOLEAN,
                    reviews \in UNION {[1..n -> ReviewValues] : n \in 0..MaxReviews}}
    /\ returned = Unused

\* the check runs
ExecuteApprovalGate ==
    /\ ~ctx.called
    /\ ctx' = [ctx EXCEPT !.called = TRUE]
    /\ returned' = executeApprovalGate(ctx)
    /\ UNCHANGED <<comments, notifier, retry, cache>>
    /\ UNCHANGED <<engineVars, hookVars>>

NextGate == ExecuteApprovalGate

SpecGate == InitGate /\ [][NextGate]_vars

(***************************************************************************)
(* Bulk re-evaluation: the installation backfill (processRepositories,     *)
(* src/src/types.ts 241-364).  The push fan-out runs the same batch loop   *)
(* over the open pull requests of one repository (handlers/pull-request.ts *)
(* 261-303).  A repository is its configuration outcome and the number of  *)
(* its open pull requests, numbered from 1.  bulk.attempts counts the      *)
(* evaluations started per pull request, bulk.failed holds those of the    *)
(* repository in turn that threw, bulk.settledAt is the time of the latest *)
(* settlement.                                                             *)
(***************************************************************************)
\* at most this many open pull requests in a repository
MaxPrs == 6

\* at most this many repositories in the installation
MaxRepos == 2

\* the clock advances in steps of this many milliseconds
BulkTickMs == 250

PR_BATCH_SIZE == 5

BATCH_DELAY_MS == 500

Repository(configStatus, openPrs) == [config |-> configStatus, openPrs |-> openPrs]

\* loadConfig answers loaded, missing or invalid, or the call raises
Repositories ==
    {Repository("loaded", n) : n \in {0, 2, MaxPrs}}
    \cup {Repository("throws", MaxPrs), Repository("invalid", 2), Repository("missing", 2)}

\* a batch that takes every remaining pull request
batchEnd_all(i, length) == length

\* openPrs.slice(i, i + PR_BATCH_SIZE): the positions after i, up to this one
batchEnd(i, length) == IF i + PR_BATCH_SIZE < length THEN i + PR_BATCH_SIZE ELSE length

\* the loop of processRepositories moves to the next repository
NextRepo(b) ==
    [b EXCEPT !.r = b.r + 1, !.i = 0,
              !.pc = IF b.r + 1 > Len(b.repos) THEN "done" ELSE "repo"]

InitBatch ==
    /\ EngineIdle
    /\ comments = Unused
    /\ notifier = Unused
    /\ retry = Unused
    /\ cache = Unused
    /\ ctx = Unused
    /\ returned = Unused
    /\ hook = Unused
    /\ bulk \in {[repos |-> repos, r |-> 1, pc |-> "repo", i |-> 0,
                  evals |-> [p \in 1..MaxPrs |-> "none"],
                  attempts |-> [r \in 1..Len(repos) |-> [p \in 1..MaxPrs |-> 0]],
                  failed |-> {},
                  time |-> 0, settledAt |-> 0, wake |-> 0, batches |-> 0] :
                     repos \in UNION {[1..n -> Repositories] : n \in 1..MaxRepos}}

\* processRepo up to evaluateOpenPrs: a repository without a valid
\* configuration or without open pull requests is skipped; an error is caught
\* by processRepositories, which goes on
ProcessRepo ==
    LET repo == bulk.repos[bulk.r] IN
    /\ bulk.pc = "repo"
    /\ bulk' = IF repo.config = "loaded" /\ repo.openPrs > 0
               THEN [bulk EXCEPT !.pc = "batch", !.i = 0, !.batches = 0, !.failed = {},
                                 !.evals = [p \in 1..MaxPrs |-> "none"]]
               ELSE NextRepo(bulk)
    /\ UNCHANGED <<comments, notifier, retry, cache, ctx, returned, hook>>
    /\ UNCHANGED engineVars

\* evaluateOpenPrs: batch.map starts one evaluation per pull request of the
\* batch, and Promise.allSettled waits
StartBatch ==
    LET batch == (bulk.i + 1)..batchEnd(bulk.i, bulk.repos[bulk.r].openPrs) IN
    /\ bulk.pc = "batch"
    /\ bulk' = [bulk EXCEPT
                   !.pc = "await",
                   !.batches = @ + 1,
                   !.evals = [p \in 1..MaxPrs |-> IF p \in batch THEN "running" ELSE "none"],
                   !.attempts[bulk.r] =
                       [p \in 1..MaxPrs |-> IF p \in batch THEN @[p] + 1 ELSE @[p]]]
    /\ UNCHANGED <<comments, notifier, retry, cache, ctx, returned, hook>>
    /\ UNCHANGED engineVars

\* one evaluation of the batch ends: getPrChangedFiles and evaluateRules
\* answered, or one of them threw and the catch logged it
EvaluationSettles(p, threw) ==
    /\ bulk.pc = "await"
    /\ bulk.evals[p] = "running"
    /\ bulk' = [bulk EXCEPT
                   !.evals[p] = "settled",
                   !.failed = IF threw THEN @ \cup {p} ELSE @,
                   !.settledAt = bulk.time]
    /\ UNCHANGED <<comments, notifier, retry, cache, ctx, returned, hook>>
    /\ UNCHANGED engineVars

\* Promise.allSettled resolves; the delay is set unless this was the last batch
AllSettledBatch ==
    /\ bulk.pc = "await"
    /\ \A p \in 1..MaxPrs : bulk.evals[p] # "running"
    /\ bulk' = IF bulk.i + PR_BATCH_SIZE < bulk.repos[bulk.r].openPrs
               THEN [bulk EXCEPT !.pc = "delay", !.wake = bulk.time + BATCH_DELAY_MS]
               ELSE NextRepo(bulk)
    /\ UNCHANGED <<comments, notifier, retry, cache, ctx, returned, hook>>
    /\ UNCHANGED engineVars

\* the timer of delay(BATCH_DELAY_MS) fires: i += PR_BATCH_SIZE
DelayOver ==
    /\ bulk.pc = "delay"
    /\ bulk.time >= bulk.wake
    /\ bulk' = [bulk EXCEPT !.pc = "batch", !.i = @ + PR_BATCH_SIZE]
    /\ UNCHANGED <<comments, notifier, retry, cache, ctx, returned, hook>>
    /\ UNCHANGED engineVars

\* time passes while evaluations run (once per batch) or the delay lasts
BulkTick ==
    /\ \/ bulk.pc = "delay" /\ bulk.time < bulk.wake
       \/ bulk.pc = "await" /\ bulk.time < bulk.wake + BulkTickMs
    /\ bulk' = [bulk EXCEPT !.time = @ + BulkTickMs]
    /\ UNCHANGED <<comments, notifier, retry, cache, ctx, returned, hook>>
    /\ UNCHANGED engineVars

NextBatch ==
    \/ ProcessRepo
    \/ StartBatch
    \/ \E p \in 1..MaxPrs, threw \in BOOLEAN : EvaluationSettles(p, threw)
    \/ AllSettledBatch
    \/ DelayOver
    \/ BulkTick

SpecBatch == InitBatch /\ [][NextBatch]_vars

(***************************************************************************)
(* The webhook handlers that call evaluateRules for one pull request       *)
(* (handlers/pull-request.ts, src/unnamed/part_012, src/src/types.ts).     *)
(* The configuration has one file_presence rule that applies to the pull   *)
(* request and matches its changed files; a delivery is handled to its end *)
(* in one step, every call of evaluateRules answering.  hook.runs are this *)
(* app's check runs per commit, hook.under is the remote state the latest  *)
(* evaluation of the commit ran under.                                     *)
(***************************************************************************)
\* at most this many deliveries
MaxEvents == 3

\* at most this many head commits of the pull request
MaxCommits == 2

HookRule == [name |-> "migration-sync"]

\* what loadConfig returns
ConfigResult(status, errors) == [status |-> status, errors |-> errors]

ConfigResults ==
    {ConfigResult("loaded", <<>>), ConfigResult("missing", <<>>),
     ConfigResult("invalid", <<"rules: Required">>),
     ConfigResult("invalid", <<"rules.0.name: Invalid", "rules.0.on: Required">>)}

\* the descriptions of the pull request
HookBodies ==
    {PrBody(FALSE, <<>>), PrBody(TRUE, <<>>),
     PrBody(TRUE, <<AllowLine("migration-sync", "a.sql", "")>>)}

HookTrees == {{}, {"a.sql"}}

HookCheckNames == {checkRunName(HookRule.name), CONFIG_CHECK_NAME}

NoSnapshot == [evaluated |-> FALSE]

\* the remote state an evaluation reads
Snapshot(h) == [evaluated |-> TRUE, sha |-> h.sha, body |-> h.body, base |-> h.base,
                head |-> h.head]

\* the sticky comment: none, or the failure body with its list, or the
\* resolved body
FailureComment(failures) == [kind |-> "failure", failures |-> failures]

SuccessComment == [kind |-> "success", failures |-> <<>>]

AbsentComment == [kind |-> "none", failures |-> <<>>]

\* postConfigError listing the first error only
postConfigError_first(runs, errors) ==
    createCheckRun(runs, CONFIG_CHECK_NAME, "completed", "failure",
        Output(Text("Invalid configuration", <<>>, 0),
               Text(".github/branch-guard.yml contains validation errors:",
                    <<Head(errors)>>, 0)))

\* postConfigError: the check runs of the head commit afterwards
postConfigError(runs, errors) ==
    createCheckRun(runs, CONFIG_CHECK_NAME, "completed", "failure",
        Output(Text("Invalid configuration", <<>>, 0),
               Text(".github/branch-guard.yml contains validation errors:", errors, 0)))

\* evaluateRules for the one rule, with the pr.prBody its caller passed
evaluateRulesOnce(h, prBody) ==
    LET name == checkRunName(HookRule.name)
        result == executeFilePresence([rule |-> HookRule, prBody |-> prBody,
                                       baseFiles |-> TreeList(h.base),
                                       headFiles |-> TreeList(h.head)])
        existing == findCheckRun(h.runs[h.sha], name)
        output == Output(result.title, result.summary)
    IN
    [h EXCEPT
        !.runs[h.sha] =
            IF existing # NoId
            THEN updateCheckRun(@, existing, "completed", result.conclusion, output)
            ELSE createCheckRun(@, name, "completed", result.conclusion, output),
        !.comment =
            IF result.conclusion = "failure" THEN FailureComment(<<output>>)
            ELSE IF @.kind = "failure" THEN SuccessComment ELSE @,
        !.evaluations = @ + 1,
        !.under = Snapshot(h)]

\* the part the handlers share: missing configuration, invalid configuration,
\* evaluation; postsError tells the handlers that post the config check from
\* those that skip an invalid configuration
afterLoadConfig(h, postsError, prBody) ==
    CASE h.config.status = "missing" -> h
      [] h.config.status = "invalid" ->
            IF postsError
            THEN [h EXCEPT !.runs[h.sha] = postConfigError(@, h.config.errors)]
            ELSE h
      [] OTHER -> evaluateRulesOnce(h, prBody)

Delivered(h, event) == [h EXCEPT !.events = @ + 1, !.last = event]

InitHook ==
    /\ EngineIdle
    /\ comments = Unused
    /\ notifier = Unused
    /\ retry = Unused
    /\ cache = Unused
    /\ ctx = Unused
    /\ returned = Unused
    /\ bulk = Unused
    /\ hook \in {[config |-> c, body |-> b, base |-> {"a.sql"}, head |-> t, sha |-> 1,
                  runs |-> [s \in 1..MaxCommits |-> [n \in HookCheckNames |-> <<>>]],
                  comment |-> AbsentComment, evaluations |-> 0, under |-> NoSnapshot,
                  events |-> 0, last |-> "none"] :
                     c \in ConfigResults, b \in HookBodies, t \in HookTrees}

\* pull_request.opened and pull_request.reopened: evaluateRules without prBody
PullRequestOpened(action) ==
    /\ hook.events < MaxEvents
    /\ action = "opened" => hook.events = 0
    /\ hook' = afterLoadConfig(Delivered(hook, action), TRUE, PrBody(FALSE, <<>>))
    /\ UNCHANGED <<comments, notifier, retry, cache, ctx, returned, bulk>>
    /\ UNCHANGED engineVars

\* pull_request.synchronize: a new head commit, then as above
PullRequestSynchronize(newHead) ==
    /\ hook.events < MaxEvents
    /\ hook.sha < MaxCommits
    /\ hook' = afterLoadConfig(
                   [Delivered(hook, "synchronize") EXCEPT !.sha = @ + 1, !.head = newHead],
                   TRUE, PrBody(FALSE, <<>>))
    /\ UNCHANGED <<comments, notifier, retry, cache, ctx, returned, bulk>>
    /\ UNCHANGED engineVars

\* pull_request.edited: the description, the title or the base has changed;
\* the handler returns unless payload.changes.base is there
PullRequestEdited(changes, newBody, newBase) ==
    LET edited == [Delivered(hook, "edited") EXCEPT
                      !.body = IF "body" \in changes THEN newBody ELSE @,
                      !.base = IF "base" \in changes THEN newBase ELSE @]
    IN
    /\ hook.events < MaxEvents
    /\ changes # {}
    /\ "body" \in changes => newBody # hook.body
    /\ "base" \in changes => newBase # hook.base
    /\ hook' = IF "base" \notin changes THEN edited
               ELSE afterLoadConfig(edited, TRUE, PrBody(FALSE, <<>>))
    /\ UNCHANGED <<comments, notifier, retry, cache, ctx, returned, bulk>>
    /\ UNCHANGED engineVars

\* issue_comment.created with /recheck: the pull request is fetched and its
\* body passed on
RecheckComment ==
    /\ hook.events < MaxEvents
    /\ hook' = afterLoadConfig(Delivered(hook, "recheck"), TRUE, hook.body)
    /\ UNCHANGED <<comments, notifier, retry, cache, ctx, returned, bulk>>
    /\ UNCHANGED engineVars

\* check_suite.rerequested for a suite of this pull request
CheckSuiteRerequested ==
    /\ hook.events < MaxEvents
    /\ hook' = afterLoadConfig(Delivered(hook, "check_suite"), TRUE, hook.body)
    /\ UNCHANGED <<comments, notifier, retry, cache, ctx, returned, bulk>>
    /\ UNCHANGED engineVars

\* a push to the base branch that touches the rule's paths: the fan-out
\* evaluates the open pull request unless the configuration is not loaded
PushToBase(newBase) ==
    /\ hook.events < MaxEvents
    /\ hook' = afterLoadConfig([Delivered(hook, "push") EXCEPT !.base = newBase],
                               FALSE, hook.body)
    /\ UNCHANGED <<comments, notifier, retry, cache, ctx, returned, bulk>>
    /\ UNCHANGED engineVars

\* installation backfill over the repository of the pull request
InstallationBackfill ==
    /\ hook.events < MaxEvents
    /\ hook' = afterLoadConfig(Delivered(hook, "installation"), FALSE, hook.body)
    /\ UNCHANGED <<comments, notifier, retry, cache, ctx, returned, bulk>>
    /\ UNCHANGED engineVars

NextHook ==
    \/ \E action \in {"opened", "reopened"} : PullRequestOpened(action)
    \/ \E newHead \in HookTrees : PullRequestSynchronize(newHead)
    \/ \E changes \in SUBSET {"body", "title", "base"}, newBody \in HookBodies,
          newBase \in {{"a.sql"}, {"a.sql", "b.sql"}} :
              PullRequestEdited(changes, newBody, newBase)
    \/ RecheckComment
    \/ CheckSuiteRerequested
    \/ \E newBase \in {{"a.sql"}, {"a.sql", "b.sql"}} : PushToBase(newBase)
    \/ InstallationBackfill

SpecHook == InitHook /\ [][NextHook]_vars

(***************************************************************************)
(* The two callers of the classification: execute (the pass) and           *)
(* resolveIfReady (the check_run.completed handler), on the same required  *)
(* names, the same remote check runs and the same PendingEvaluation.       *)
(***************************************************************************)
\* Date.now() at the call: createdAt, the deadline to the millisecond, past it
ClassifyTimes == {0, TickMs, TickMs + 1}

InitClassify ==
    /\ EngineIdle
    /\ HookIdle
    /\ comments = Unused
    /\ notifier = Unused
    /\ retry = Unused
    /\ cache = Unused
    /\ ctx \in {[rule |-> ClassifiedRule(required),
                 allRuns |-> runs,
                 evaluation |-> PendingEvaluation(ClassifiedRule(required), HeadSha,
                                    RunId(checkRunName("lint-check"), 1), 0),
                 now |-> t,
                 executed |-> FALSE,
                 resolved |-> FALSE] :
                    required \in RequiredLists, runs \in [RequiredNames -> RemoteStates],
                    t \in ClassifyTimes}
    /\ returned = [execute |-> NullResult, resolveIfReady |-> NullResult]

\* the store both callers find: the evaluation under the rule's key
ClassifyStore ==
    <<[key |-> getPendingKey(Owner, Repo, HeadSha, ctx.rule.name),
       evaluation |-> ctx.evaluation]>>

\* the fallback path: evaluateSingleRule calls execute
ExecuteExternalStatus ==
    /\ ~ctx.executed
    /\ ctx' = [ctx EXCEPT !.executed = TRUE]
    /\ returned' = [returned EXCEPT
                       !.execute = execute(ctx.rule, HeadSha, ctx.allRuns, ClassifyStore).result]
    /\ UNCHANGED <<comments, notifier, retry, cache>>
    /\ UNCHANGED <<engineVars, hookVars>>

\* the reactive path: the handler calls resolveIfReady
ResolveExternalStatus ==
    /\ ~ctx.resolved
    /\ ctx' = [ctx EXCEPT !.resolved = TRUE]
    /\ returned' = [returned EXCEPT
                       !.resolveIfReady =
                           resolveIfReady(HeadSha, ctx.evaluation, ctx.now, ctx.allRuns,
                                          ClassifyStore).result]
    /\ UNCHANGED <<comments, notifier, retry, cache>>
    /\ UNCHANGED <<engineVars, hookVars>>

NextClassify ==
    \/ ExecuteExternalStatus
    \/ ResolveExternalStatus

SpecClassify == InitClassify /\ [][NextClassify]_vars

(***************************************************************************)
(* The check_run.completed handler over a store that holds evaluations of  *)
(* several commits and repositories (src/src/handlers/check-run.ts).  The  *)
(* deliveries are those of the repository Repo; hook.store is the pending  *)
(* store, hook.runs this app's check runs by id, hook.queries the commits  *)
(* whose check runs were listed, hook.taken the evaluations the loop took  *)
(* up.                                                                     *)
(***************************************************************************)
StoredEvaluation(repo, headSha, ruleName, required, n) ==
    [key |-> getPendingKey(Owner, repo, headSha, ruleName),
     evaluation |-> [owner |-> Owner, repo |-> repo, headSha |-> headSha,
                     ruleName |-> ruleName, requiredChecks |-> required,
                     checkRunId |-> RunId(checkRunName(ruleName), n),
                     createdAt |-> 0, timeoutMinutes |-> 1]]

\* the evaluations a store may hold, in the order they were stored
StoredPool ==
    <<StoredEvaluation(Repo, HeadSha, "lint-check", <<"lint", "typecheck">>, 1),
      StoredEvaluation(Repo, HeadSha, "manifest-check", <<"lint">>, 1),
      StoredEvaluation(Repo, "def456", "lint-check", <<"lint">>, 2),
      StoredEvaluation("other", HeadSha, "lint-check", <<"lint">>, 3),
      StoredEvaluation(Repo, HeadSha, "lockfile-check", <<"branch-guard/lint-check">>, 1)>>

WaitingRun == [status |-> "in_progress", conclusion |-> "null", output |-> NoOutput]

\* the names a delivery may carry
CompletedNames == {"lint", "typecheck", "branch-guard/lint-check", "branch-guard/config"}

NoDelivery == [headSha |-> "", name |-> ""]

\* the loop moves to the evaluation after the one in turn
AfterEvaluation(h) ==
    [h EXCEPT !.evals = Tail(@), !.pc = IF Len(h.evals) > 1 THEN "resolve" ELSE "done",
              !.result = NullResult]

InitHandler ==
    /\ EngineIdle
    /\ comments = Unused
    /\ notifier = Unused
    /\ retry = Unused
    /\ cache = Unused
    /\ ctx = Unused
    /\ returned = Unused
    /\ bulk = Unused
    /\ hook \in {[store |-> SelectSeq(StoredPool, LAMBDA e : e \in kept),
                  allRuns |-> runs,
                  runs |-> [n \in {checkRunName(r) : r \in RuleNames} |->
                               <<WaitingRun, WaitingRun, WaitingRun>>],
                  now |-> t,
                  delivery |-> NoDelivery, pc |-> "idle", evals |-> <<>>,
                  result |-> NullResult, queries |-> {}, taken |-> {}] :
                     kept \in SUBSET Range(StoredPool),
                     runs \in [{"lint", "typecheck"} ->
                                  {Run("in_progress", "null"), Run("completed", "success"),
                                   Run("completed", "failure")}],
                     t \in {0, 2 * TickMs}}

\* check_run.completed arrives, lines 14-55: own names and names no pending
\* evaluation of the commit requires end the handler at once
CheckRunDelivered(headSha, completedCheckName) ==
    LET relevant == IF isOwnCheck(completedCheckName) THEN <<>>
                    ELSE relevantEvals(hook.store, headSha, completedCheckName)
    IN
    /\ hook.pc = "idle"
    /\ hook' = [hook EXCEPT
                   !.delivery = [headSha |-> headSha, name |-> completedCheckName],
                   !.evals = relevant,
                   !.pc = IF relevant = <<>> THEN "done" ELSE "resolve"]
    /\ UNCHANGED <<comments, notifier, retry, cache, ctx, returned, bulk>>
    /\ UNCHANGED engineVars

\* lines 56-75: resolveIfReady answers for the evaluation in turn
DeliveryResolve ==
    LET evaluation == Head(hook.evals)
        out == resolveIfReady(hook.delivery.headSha, evaluation, hook.now, hook.allRuns,
                              hook.store)
        took == [hook EXCEPT
                    !.store = out.store,
                    !.taken = @ \cup {evaluation},
                    !.queries = IF out.queried THEN @ \cup {hook.delivery.headSha} ELSE @]
    IN
    /\ hook.pc = "resolve"
    /\ hook' = IF out.result # NullResult
               THEN [took EXCEPT !.pc = "write", !.result = out.result]
               ELSE AfterEvaluation(took)
    /\ UNCHANGED <<comments, notifier, retry, cache, ctx, returned, bulk>>
    /\ UNCHANGED engineVars

\* lines 76-94: the resolved check run is completed
DeliveryWrite ==
    LET evaluation == Head(hook.evals) IN
    /\ hook.pc = "write"
    /\ hook' = AfterEvaluation(
                   [hook EXCEPT !.runs = updateCheckRun(@, evaluation.checkRunId, "completed",
                                             hook.result.conclusion,
                                             Output(hook.result.title, hook.result.summary))])
    /\ UNCHANGED <<comments, notifier, retry, cache, ctx, returned, bulk>>
    /\ UNCHANGED engineVars

\* lines 101-106: the listing of resolveIfReady or the update raises; the
\* error is logged and the loop goes on
DeliveryThrow ==
    /\ hook.pc \in {"resolve", "write"}
    /\ hook.pc = "resolve" => ~timedOut(hook.now, Head(hook.evals))
    /\ hook' = AfterEvaluation([hook EXCEPT !.taken = @ \cup {Head(hook.evals)}])
    /\ UNCHANGED <<comments, notifier, retry, cache, ctx, returned, bulk>>
    /\ UNCHANGED engineVars

NextHandler ==
    \/ \E headSha \in {HeadSha, "def456"}, name \in CompletedNames :
          CheckRunDelivered(headSha, name)
    \/ DeliveryResolve
    \/ DeliveryWrite
    \/ DeliveryThrow

SpecHandler == InitHandler /\ [][NextHandler]_vars

(***************************************************************************)
(* The remote calls of one pull_request trigger (pull-request.ts 34-80,    *)
(* evaluateSingleRule, the check types) for a configuration of one rule    *)
(* whose files match.  A call site is wrapped when its request is made     *)
(* inside withRetry.  retry.calls is the list of sites still to call,      *)
(* retry.attempt the attempt withRetry is at, retry.flaky the position of  *)
(* the call whose first request is answered with retry.status.             *)
(***************************************************************************)
CallSite(name, wrapped, stage) == [name |-> name, wrapped |-> wrapped, stage |-> stage]

CheckTypes == {"file_presence", "file_pair", "external_status", "approval_gate", "branch_age"}

\* the requests of execute() of each check type
executeCalls(checkType) ==
    CASE checkType = "file_presence" -> <<CallSite("git tree", TRUE, "rule")>>
      [] checkType = "file_pair" -> <<>>
      [] checkType = "external_status" -> <<CallSite("list check runs", TRUE, "rule")>>
      [] checkType = "approval_gate" -> <<CallSite("list reviews", TRUE, "rule"),
                                          CallSite("list team members", TRUE, "rule")>>
      [] checkType = "branch_age" -> <<CallSite("compare commits", FALSE, "rule")>>

\* loadConfig, getPrChangedFiles, then evaluateRules with one rule
triggerCalls(checkType) ==
    <<CallSite("config load", FALSE, "handler"),
      CallSite("changed files", FALSE, "handler"),
      CallSite("find check run", TRUE, "rule"),
      CallSite("create check run", TRUE, "rule")>>
    \o executeCalls(checkType)
    \o <<CallSite("update check run", TRUE, "rule"),
         CallSite("list comments", TRUE, "comment")>>

\* postErrorCheck, then the comment
errorCalls ==
    <<CallSite("find check run", TRUE, "error"),
      CallSite("update check run", TRUE, "error"),
      CallSite("list comments", TRUE, "comment")>>

InitCalls ==
    /\ EngineIdle
    /\ HookIdle
    /\ comments = Unused
    /\ notifier = Unused
    /\ retry \in {[checkType |-> checkType, calls |-> triggerCalls(checkType), made |-> 0,
                   attempt |-> 0, pc |-> "call", flaky |-> flaky, status |-> status,
                   opts |-> RetryOptions(NoOption, NoOption),
                   outcome |-> "evaluated", retried |-> {}] :
                     checkType \in CheckTypes, flaky \in 0..8,
                     status \in RETRYABLE_STATUSES}
    /\ cache = Unused
    /\ ctx = Unused
    /\ returned = Unused

\* the request in turn is the one the platform answers with retry.status
Flaky == retry.made + 1 = retry.flaky /\ retry.attempt = 0

\* the request in turn is answered: the next call site, or the end
RequestAnswers ==
    /\ retry.pc = "call"
    /\ retry.calls # <<>>
    /\ ~Flaky
    /\ retry' = [retry EXCEPT !.calls = Tail(@), !.made = @ + 1, !.attempt = 0,
                              !.pc = IF Len(retry.calls) = 1 THEN "done" ELSE "call"]
    /\ UNCHANGED <<comments, notifier, cache, ctx, returned>>
    /\ UNCHANGED <<engineVars, hookVars>>

\* the request in turn is rejected with a 429 or 5xx.  Inside withRetry the
\* catch block sets the delay; outside, the error leaves the function that
\* made the request: the handler ends, or the rule's promise is rejected and
\* evaluateRules posts the error check (evaluate.ts 307-332)
RequestRejects ==
    LET site == Head(retry.calls)
        error == HttpError(1, retry.status, NoStatus, NoHeader, NoHeader)
    IN
    /\ retry.pc = "call"
    /\ retry.calls # <<>>
    /\ Flaky
    /\ retry' =
          IF site.wrapped /\ isRetryable(error) /\ ~lastAttempt(retry.attempt, retry.opts)
          THEN [retry EXCEPT !.pc = "sleep", !.retried = @ \cup {site.name}]
          ELSE IF site.stage = "handler"
          THEN [retry EXCEPT !.pc = "done", !.calls = <<>>, !.outcome = "failed"]
          ELSE IF site.stage = "rule"
          THEN [retry EXCEPT !.calls = errorCalls, !.made = @ + 1,
                             !.outcome = "Internal error"]
          ELSE [retry EXCEPT !.calls = Tail(@), !.made = @ + 1,
                             !.pc = IF Len(retry.calls) = 1 THEN "done" ELSE "call"]
    /\ UNCHANGED <<comments, notifier, cache, ctx, returned>>
    /\ UNCHANGED <<engineVars, hookVars>>

\* sleep(delayMs) of withRetry is over: the next attempt
RequestSleepOver ==
    /\ retry.pc = "sleep"
    /\ retry' = [retry EXCEPT !.pc = "call", !.attempt = @ + 1]
    /\ UNCHANGED <<comments, notifier, cache, ctx, returned>>
    /\ UNCHANGED <<engineVars, hookVars>>

NextCalls ==
    \/ RequestAnswers
    \/ RequestRejects
    \/ RequestSleepOver

SpecCalls == InitCalls /\ [][NextCalls]_vars

(***************************************************************************)
(* Rule names and check names (src/src/types.ts 17-21, 175-181).  A name   *)
(* is the sequence of its characters, so that the pattern of the schema    *)
(* and the template of checkRunName work on what the name is made of.      *)
(***************************************************************************)
\* names of up to MaxNameLen characters are drawn, and two longer ones
MaxNameLen == 2

LowerCaseLetters ==
    {"a", "b", "c", "d", "e", "f", "g", "h", "i", "j", "k", "l", "m",
     "n", "o", "p", "q", "r", "s", "t", "u", "v", "w", "x", "y", "z"}

Digits == {"0", "1", "2", "3", "4", "5", "6", "7", "8", "9"}

\* the characters names are drawn from
NameChars == {"a", "1", "-", "A", "/"}

DrawnNames ==
    UNION {[1..n -> NameChars] : n \in 0..MaxNameLen}
    \cup {<<"c", "o", "n", "f", "i", "g">>, <<"c", "o", "n", "f", "i", "g", "-", "1">>}

\* /^[a-z0-9-]+$/.test(name)
matchesRuleName(name) ==
    /\ Len(name) >= 1
    /\ \A k \in DOMAIN name : name[k] \in LowerCaseLetters \cup Digits \cup {"-"}

CHECK_NAME_PREFIX_chars == <<"b", "r", "a", "n", "c", "h", "-", "g", "u", "a", "r", "d">>

\* `${CHECK_NAME_PREFIX}/${ruleName}` character by character
checkRunName_chars(ruleName) == CHECK_NAME_PREFIX_chars \o <<"/">> \o ruleName

\* `${CHECK_NAME_PREFIX}/config`
CONFIG_CHECK_NAME_chars == CHECK_NAME_PREFIX_chars \o <<"/", "c", "o", "n", "f", "i", "g">>

NotParsed == [accepted |-> FALSE, checkName |-> <<>>]

InitNames ==
    /\ EngineIdle
    /\ HookIdle
    /\ comments = Unused
    /\ notifier = Unused
    /\ retry = Unused
    /\ cache = Unused
    /\ ctx \in {[names |-> <<first, second>>] : first \in DrawnNames, second \in DrawnNames}
    /\ returned = <<NotParsed, NotParsed>>

\* ConfigSchema parses the rule: a name off the pattern is an error, an
\* accepted rule gets its check name when it is evaluated
ParseRule(k) ==
    /\ returned[k] = NotParsed
    /\ matchesRuleName(ctx.names[k])
    /\ returned' = [returned EXCEPT ![k] = [accepted |-> TRUE,
                                            checkName |-> checkRunName_chars(ctx.names[k])]]
    /\ UNCHANGED <<comments, notifier, retry, cache, ctx>>
    /\ UNCHANGED <<engineVars, hookVars>>

NextNames == \E k \in {1, 2} : ParseRule(k)

SpecNames == InitNames /\ [][NextNames]_vars

(***************************************************************************)
(* Properties                                                              *)
(***************************************************************************)
\* the last (most recent) check run of that name; the name has one
LastRun(runs, name) == runs[name][Len(runs[name])]

RequestKinds == {"find", "create", "update", "query", "comment"}

\* the handler is about to write a check run: the only writer besides the pass
HandlerWrites == handler.pc = "write"

\* C1: in a pass, a rule whose on.branches does not contain the PR's base
\* branch gets no request at all and its check runs are not touched by the
\* pass; when no rule applies to the base branch the pass makes no request,
\* writes no check run and leaves the comment alone.
C1_BranchFilter ==
    [][phase' # "idle" =>
        /\ \A i \in RuleIds :
              pr'.baseBranch \notin config[i].branches =>
                /\ \A kind \in RequestKinds : Request(kind, config[i].name) \notin reqs'
                /\ ~HandlerWrites =>
                      checkRuns'[checkRunName(config[i].name)]
                          = checkRuns[checkRunName(config[i].name)]
        /\ (\A i \in RuleIds : pr'.baseBranch \notin config[i].branches) =>
                /\ reqs' = {}
                /\ comment' = comment
                /\ ~HandlerWrites => checkRuns' = checkRuns]_vars

\* a pass on "dev" has ended: the rule for "main" only was left out while the
\* rule that applies was evaluated and written
C1_Witness ==
    /\ phase = "done"
    /\ \E i \in RuleIds : pr.baseBranch \notin config[i].branches
    /\ \E j \in RuleIds :
          /\ pr.baseBranch \in config[j].branches
          /\ Request("update", config[j].name) \in reqs

\* no changed file is matched by an include pattern and by no exclude pattern
NoFileMatches(rule, changedFiles) ==
    \A file \in changedFiles :
        \/ \A k \in DOMAIN rule.include : ~picomatch(rule.include[k], file)
        \/ \E k \in DOMAIN rule.exclude : picomatch(rule.exclude[k], file)

RuleNotApplicableOutput ==
    Output(Text("Rule not applicable", <<>>, 0),
           Text("No matching files changed in this PR.", <<>>, 0))

Waiting(rule, runs) ==
    /\ \E k \in DOMAIN rule.required_checks :
          FindRun(runs, rule.required_checks[k]).status # "completed"
    /\ \A k \in DOMAIN rule.required_checks :
          FindRun(runs, rule.required_checks[k]).status = "completed" =>
              FindRun(runs, rule.required_checks[k]).conclusion = "success"

\* the required names without a completed run, in configured order
PendingNames(rule, runs) ==
    SelectSeq(rule.required_checks, LAMBDA n : FindRun(runs, n).status # "completed")

KeyPresent(store, key) == \E k \in DOMAIN store : store[k].key = key

EntryOf(store, key) == store[CHOOSE k \in DOMAIN store : store[k].key = key].evaluation

\* C3: an external_status rule whose files match, whatever its
\* failure_message and notify are: when the check type answers while a
\* required check is pending or missing and none has failed, the evaluation
\* stores a PendingEvaluation under the key of (owner/repo, head SHA, rule
\* name) with the check-run id, the required names and the timeout, and its
\* write leaves the check run in_progress titled "Waiting for: <pending
\* names>"; it writes no completed status.
C3_WaitingStaysInProgress ==
    [][\A i \in RuleIds :
        LET rule == config[i]
            name == checkRunName(rule.name)
            key == getPendingKey(Owner, Repo, pr.headSha, rule.name)
        IN
        (phase = "running" /\ rule.check_type = "external_status") =>
            /\ (TaskExecute(i) /\ Waiting(rule, allRuns)) =>
                  /\ tasks'[i].pc = "pendwrite"
                  /\ KeyPresent(pendingEvaluations', key)
                  /\ EntryOf(pendingEvaluations', key).checkRunId = tasks[i].run
                  /\ EntryOf(pendingEvaluations', key).requiredChecks = rule.required_checks
                  /\ EntryOf(pendingEvaluations', key).timeoutMinutes = rule.timeout_minutes
            /\ ((TaskPendingWrite(i) \/ TaskFinalWrite(i))
                    /\ startsWithWaitingFor(tasks[i].raw.title)) =>
                  /\ LastRun(checkRuns', name).status = "in_progress"
                  /\ LastRun(checkRuns', name).output.title = tasks[i].raw.title]_vars

\* the waiting result of a rule without failure_message was written: the
\* check run is in_progress, titled with the pending names, and stored
C3_Witness ==
    \E i \in RuleIds :
        LET rule == config[i]
            name == checkRunName(rule.name)
            key == getPendingKey(Owner, Repo, pr.headSha, rule.name)
        IN
        /\ phase = "running"
        /\ rule.check_type = "external_status"
        /\ tasks[i].pc = "fulfilled"
        /\ startsWithWaitingFor(tasks[i].raw.title)
        /\ tasks[i].raw.title.names = <<"typecheck">>
        /\ LastRun(checkRuns, name).status = "in_progress"
        /\ LastRun(checkRuns, name).output.title = tasks[i].raw.title
        /\ KeyPresent(pendingEvaluations, key)

\* milliseconds in a minute
MsPerMinute == 60 * 1000

TimedOutTitle == Text("Timed out waiting for required checks", <<>>, 0)

\* C5: when the handler runs resolveIfReady on a PendingEvaluation: if the
\* clock is strictly past createdAt + timeoutMinutes the result is the
\* failure "Timed out waiting for required checks", produced without a query
\* of the remote check runs (whatever their states are); if the clock is not
\* past that deadline the result is never the timed-out one.
C5_Timeout ==
    [][HandlerResolve =>
        LET e == Head(handler.evals) IN
        IF now > e.createdAt + e.timeoutMinutes * MsPerMinute
        THEN /\ handler'.pc = "write"
             /\ handler'.result.conclusion = "failure"
             /\ handler'.result.title = TimedOutTitle
             /\ ~resolveIfReady(HeadSha, e, now, allRuns, pendingEvaluations).queried
        ELSE /\ handler'.result.title # TimedOutTitle
             /\ resolveIfReady(HeadSha, e, now, allRuns, pendingEvaluations).queried]_vars

\* the timed-out result was returned although every required check succeeded
C5_Witness ==
    /\ handler.pc = "write"
    /\ handler.result.title = TimedOutTitle
    /\ \A k \in DOMAIN Head(handler.evals).requiredChecks :
          FindRun(allRuns, Head(handler.evals).requiredChecks[k])
              = Run("completed", "success")

ResolvedTitles == {"All required checks passed", "Required check failed"}

\* C6: after execute returns resolved-success or resolved-failure, and after
\* resolveIfReady returns a non-null result, the store holds no entry under
\* the key of that (owner/repo, head SHA, rule name); after resolveIfReady
\* returns null the store is as it was.
C6_StoreCleared ==
    [][/\ \A i \in RuleIds :
            (TaskExecute(i) /\ config[i].check_type = "external_status"
                /\ tasks'[i].raw.title.head \in ResolvedTitles) =>
                ~KeyPresent(pendingEvaluations',
                            getPendingKey(Owner, Repo, pr.headSha, config[i].name))
       /\ HandlerResolve =>
            IF handler'.pc = "write"
            THEN ~KeyPresent(pendingEvaluations',
                             getPendingKey(Owner, Repo, HeadSha,
                                           Head(handler.evals).ruleName))
            ELSE pendingEvaluations' = pendingEvaluations]_vars

\* resolveIfReady has returned a success and the entry is gone
C6_Witness ==
    /\ handler.pc = "write"
    /\ handler.result.conclusion = "success"
    /\ ~KeyPresent(pendingEvaluations,
                   getPendingKey(Owner, Repo, HeadSha, Head(handler.evals).ruleName))

AllRequiredCompleted(rule, runs) ==
    \A k \in DOMAIN rule.required_checks :
        FindRun(runs, rule.required_checks[k]).status = "completed"

AllRequiredSucceeded(rule, runs) ==
    \A k \in DOMAIN rule.required_checks :
        FindRun(runs, rule.required_checks[k]) = Run("completed", "success")

\* C8: in a fallback pass the result of an external_status rule is the one
\* execute gives on an empty store for the same remote check runs, whatever
\* the store holds; with every required check completed the pass goes to the
\* final write and writes completed with success when all succeeded and with
\* failure otherwise.
C8_FallbackFromRemoteOnly ==
    [][\A i \in RuleIds :
        LET rule == config[i]
            name == checkRunName(rule.name)
        IN
        rule.check_type = "external_status" =>
            /\ TaskExecute(i) =>
                  /\ tasks'[i].raw =
                        execute(rule, pr.headSha, allRuns, clearPendingEvaluations).result
                  /\ AllRequiredCompleted(rule, allRuns) =>
                        /\ tasks'[i].pc = "finalwrite"
                        /\ tasks'[i].result.conclusion =
                              IF AllRequiredSucceeded(rule, allRuns)
                              THEN "success" ELSE "failure"
            /\ TaskFinalWrite(i) =>
                  /\ LastRun(checkRuns', name).status = "completed"
                  /\ LastRun(checkRuns', name).conclusion = tasks[i].result.conclusion]_vars

\* a fallback pass has written success for an external_status rule with the
\* store empty; the clock has moved, so an entry had been stored before and
\* its signal was not what resolved it
C8_Witness ==
    \E i \in RuleIds :
        /\ config[i].check_type = "external_status"
        /\ phase = "running"
        /\ tasks[i].pc = "fulfilled"
        /\ tasks[i].value = "result"
        /\ tasks[i].raw.conclusion = "success"
        /\ now > 0
        /\ pendingEvaluations = <<>>
        /\ LastRun(checkRuns, checkRunName(config[i].name)).conclusion = "success"

InternalErrorRun ==
    [status |-> "completed", conclusion |-> "failure", output |-> InternalErrorOutput]

\* the rule whose error handling this step ends
Handled(before, after) == CHOOSE r \in after \ before : TRUE

\* what C9 says of the step that ends the error handling of a rule: the
\* rule had raised, only its check runs change, and either the "Internal
\* error" status is there (the existing run updated, else one created) or,
\* when mayRaise, posting it raised and nothing was written
ErrorHandled(mayRaise) ==
    (phase = "running" /\ errDone' \ errDone # {}) =>
        LET r == Handled(errDone, errDone')
            name == checkRunName(config[r].name)
        IN
        /\ tasks[r].pc = "rejected"
        /\ \A n \in DOMAIN checkRuns \ {name} : checkRuns'[n] = checkRuns[n]
        /\ \/ /\ Len(checkRuns'[name]) =
                    IF Len(checkRuns[name]) > 0 THEN Len(checkRuns[name]) ELSE 1
              /\ LastRun(checkRuns', name) = InternalErrorRun
              /\ r \in errorFailures'
           \/ /\ mayRaise
              /\ faults' = faults + 1
              /\ checkRuns' = checkRuns
              /\ r \notin errorFailures'

\* what C9 says of the other rules and of the pass: a rule that raises
\* leaves the evaluations of the other rules as they are, the pass ends only
\* when every applicable rule has either made its last write or raised, and
\* a raise leaves the pass running or ended, never failed
OthersUnhindered ==
    /\ \A i \in RuleIds :
          (phase = "running" /\ tasks[i].pc # "rejected" /\ tasks'[i].pc = "rejected") =>
              \A j \in RuleIds \ {i} : tasks'[j] = tasks[j]
    /\ (phase = "running" /\ phase' = "done") =>
          \A j \in RuleIds :
              pr.baseBranch \in config[j].branches =>
                  tasks[j].pc \in {"fulfilled", "rejected"}
    /\ (phase = "running" /\ faults' = faults + 1) => phase' \in {"running", "done"}

Written(conclusion, configured, own) ==
    IF conclusion = "failure" /\ configured # Undefined THEN configured ELSE own

\* C10: the final write of a rule carries the check type's conclusion; when
\* that conclusion is failure a configured failure_message title replaces
\* the title and a configured summary replaces the summary, each field on
\* its own, an unconfigured field keeping the check type's text; when the
\* conclusion is success the title and summary are the check type's own.
C10_FailureMessage ==
    [][\A i \in RuleIds :
        TaskFinalWrite(i) =>
            LET rule == config[i]
                own == tasks[i].raw
                written == LastRun(checkRuns', checkRunName(rule.name))
            IN
            /\ written.status = "completed"
            /\ written.conclusion = own.conclusion
            /\ written.output.title =
                  Written(own.conclusion, rule.failure_message.title, own.title)
            /\ written.output.summary =
                  Written(own.conclusion, rule.failure_message.summary, own.summary)
            /\ own.conclusion = "success" => written.output = Output(own.title, own.summary)]_vars

\* a failure was written with the configured title and the check type's own
\* summary
C10_Witness ==
    \E i \in RuleIds :
        /\ phase = "running"
        /\ tasks[i].pc = "fulfilled"
        /\ tasks[i].value = "result"
        /\ tasks[i].raw.conclusion = "failure"
        /\ config[i].failure_message.title = CustomTitle
        /\ config[i].failure_message.summary = Undefined
        /\ LastRun(checkRuns, checkRunName(config[i].name)).output
              = Output(CustomTitle, tasks[i].raw.summary)

\* the required names with a completed run that is no success, in configured
\* order
FailingNames(rule, runs) ==
    SelectSeq(rule.required_checks,
              LAMBDA n : /\ FindRun(runs, n).status = "completed"
                         /\ FindRun(runs, n).conclusion # "success")

InProgress(n) ==
    /\ n \in DOMAIN checkRuns
    /\ Len(checkRuns[n]) > 0
    /\ LastRun(checkRuns, n).status = "in_progress"

\* the most recent check run of that name is completed, success or failure
Terminal(n) ==
    /\ n \in DOMAIN checkRuns
    /\ Len(checkRuns[n]) > 0
    /\ LastRun(checkRuns, n).status = "completed"
    /\ LastRun(checkRuns, n).conclusion \in {"success", "failure"}

\* C7: a rule's check run that is in_progress (its files have matched) is
\* eventually completed with success or failure, also when the required
\* checks of an external_status rule never report and when the execution or
\* the final write raised; no check run stays in_progress for ever.
C7_EventuallyTerminal ==
    \A n \in OwnCheckNames : [](InProgress(n) => <>Terminal(n))

\* the check run of an external_status rule is in_progress, its pending
\* evaluation is past its deadline, no required check has reported, and
\* neither a pass nor a handler is in flight
C7_Witness ==
    /\ InProgress(checkRunName("lint-check"))
    /\ phase = "idle"
    /\ handler.pc = "idle"
    /\ pendingEvaluations # <<>>
    /\ \A k \in DOMAIN pendingEvaluations :
          now > pendingEvaluations[k].evaluation.createdAt
                  + pendingEvaluations[k].evaluation.timeoutMinutes * MsPerMinute
    /\ \A n \in ExternalNames : allRuns[n] = Absent

\* the pass ends: the step that leaves "running" for "done"
PassEnds == phase = "running" /\ phase' = "done"

\* rule i ended the pass with a failure: its final write was a failure, or
\* its evaluation raised and the "Internal error" status was posted
EndedWithFailure(i) ==
    \/ tasks[i].pc = "fulfilled" /\ tasks[i].value = "result"
          /\ tasks[i].raw.conclusion = "failure"
    \/ tasks[i].pc = "rejected" /\ i \in errorFailures

\* rule i was evaluated in the pass: it made a final write or got the
\* "Internal error" status
Evaluated(i) ==
    \/ tasks[i].pc = "fulfilled" /\ tasks[i].value = "result"
    \/ tasks[i].pc = "rejected" /\ i \in errorFailures

\* C11: when the pass ends, the failures handed to the Notification Manager
\* are, one entry each, exactly the applicable rules that ended the pass
\* with a failure and whose notify is not false, with the title and summary
\* that were written; a rule that passed, matched no file, is left waiting
\* or has notify: false is not among them.
C11_FailureList ==
    [][PassEnds =>
        LET expected == {i \in RuleIds :
                            /\ pr.baseBranch \in config[i].branches
                            /\ EndedWithFailure(i)
                            /\ config[i].notify # FALSE}
            names == {handed'.failures[k].ruleName : k \in DOMAIN handed'.failures}
        IN
        /\ names = {config[i].name : i \in expected}
        /\ Len(handed'.failures) = Cardinality(expected)
        /\ handed'.call = "failure" <=> expected # {}
        /\ \A k \in DOMAIN handed'.failures :
              \E i \in expected :
                  /\ handed'.failures[k].ruleName = config[i].name
                  /\ tasks[i].pc = "fulfilled" =>
                        /\ handed'.failures[k].title = tasks[i].result.title
                        /\ handed'.failures[k].summary = tasks[i].result.summary
                  /\ tasks[i].pc = "rejected" =>
                        handed'.failures[k].title = InternalErrorOutput.title]_vars

\* a pass ended in which both rules failed and only the one whose notify is
\* not false was handed over
C11_Witness ==
    /\ phase = "done"
    /\ Len(handed.failures) = 1
    /\ \E i \in RuleIds :
          /\ config[i].notify = FALSE
          /\ tasks[i].pc = "fulfilled" /\ tasks[i].value = "result"
          /\ tasks[i].raw.conclusion = "failure"
    /\ \E j \in RuleIds :
          /\ config[j].notify = TRUE
          /\ tasks[j].pc = "fulfilled" /\ tasks[j].value = "result"
          /\ tasks[j].raw.conclusion = "failure"
          /\ handed.failures[1].ruleName = config[j].name

\* C12: the pass signals success to the Notification Manager, and the
\* comment is switched to the "All checks passed" body, only when at least
\* one rule was evaluated and no evaluated rule concluded failure, rules
\* with notify: false included; a pass in which some rule failed never
\* signals success.
C12_SuccessOnlyWithoutFailure ==
    [][(PassEnds /\ (handed'.call = "success" \/ (comment' = "success" /\ comment # "success"))) =>
        /\ \E i \in RuleIds : Evaluated(i)
        /\ \A i \in RuleIds : ~EndedWithFailure(i)]_vars

\* a pass in which the only failing rule has notify: false has switched the
\* failure comment to the success body
C12_Witness ==
    /\ phase = "done"
    /\ handed.call = "success"
    /\ comment = "success"
    /\ \E i \in RuleIds :
          /\ config[i].notify = FALSE
          /\ tasks[i].pc = "fulfilled" /\ tasks[i].value = "result"
          /\ tasks[i].raw.conclusion = "failure"

\* the comments whose body contains the marker
MarkedComments == {k \in DOMAIN comments : comments[k].body.marker}

\* C13: whatever the passes do, one after another or at the same time, the
\* pull request has at most one comment containing the marker; a call that
\* finds a marked comment updates that comment and creates none; a comment
\* without the marker is never updated.
C13_OneStickyComment ==
    /\ [](Cardinality(MarkedComments) <= 1)
    /\ [][\A c \in Passes :
            /\ PostNew(c) => notifier[c].existing = NoBotComment
            /\ PatchExisting(c) =>
                  /\ notifier[c].existing.body.marker
                  /\ Len(comments') = Len(comments)
                  /\ \A k \in DOMAIN comments :
                        comments'[k] # comments[k] => comments[k].body.marker]_vars

\* two passes have each created a marked comment
C13_Witness ==
    /\ Cardinality(MarkedComments) = 2
    /\ \A c \in Passes : notifier[c].call = "failure" /\ notifier[c].pc = "returned"

\* the parts of C13 that hold also when passes overlap: a call that found a
\* marked comment never creates one, and only marked comments are updated
C13_FoundIsUpdated ==
    [][\A c \in Passes :
          /\ PostNew(c) => notifier[c].existing = NoBotComment
          /\ PatchExisting(c) =>
                /\ notifier[c].existing.body.marker
                /\ Len(comments') = Len(comments)
                /\ \A k \in DOMAIN comments :
                      comments'[k] # comments[k] => comments[k].body.marker]_vars

\* C14: a failure of the listing, the creation or the update of the sticky
\* comment is caught and logged: the function returns normally, no call ever
\* ends by raising, and the comments and every check run stay as they were.
C14_CommentErrorsSwallowed ==
    [][\A c \in Passes :
          /\ notifier'[c].pc # "thrown"
          /\ CommentCallFails(c) =>
                /\ notifier'[c].pc = "returned"
                /\ notifier'[c].logged
                /\ comments' = comments
                /\ checkRuns' = checkRuns]_vars

\* a call whose request failed has returned, with the failure logged
C14_Witness ==
    \E c \in Passes : notifier[c].pc = "returned" /\ notifier[c].logged


\* an invocation of the wrapped function has just failed
InvocationFailed == retry.pc = "call" /\ retry'.pc \in {"sleep", "thrown"}

\* the status the claim speaks of: the error's own, or else its response's
ErrorStatus(error) == IF error.status # 0 THEN error.status ELSE error.responseStatus

\* the errors C15 lists as retried
TransientError(error) ==
    \/ ErrorStatus(error) \in {429, 500, 502, 503}
    \/ /\ ErrorStatus(error) = 403
       /\ error.headers.retryAfter # "" \/ error.headers.remaining = "0"

\* retries are left: fewer than maxRetries retries have been made
RetriesLeft == retry.attempt < maxRetriesOf(retry.opts)

\* C15: while retries are left, a failed invocation is retried if and only
\* if its error has status 429, 500, 502 or 503, or status 403 with a
\* retry-after header or x-ratelimit-remaining "0"; any other error (404, a
\* plain 403, no status) is thrown on at once, so that one that fails the
\* first invocation leaves the function invoked exactly once.
C15_RetryableErrors ==
    [][InvocationFailed =>
        /\ RetriesLeft => (retry'.pc = "sleep" <=> TransientError(retry'.lastError))
        /\ ~TransientError(retry'.lastError) =>
              /\ retry'.pc = "thrown"
              /\ retry'.thrown = retry'.lastError
              /\ retry.calls = 0 => retry'.calls = 1]_vars

\* a plain 403 was thrown after one invocation, with retries left
C15_Witness ==
    /\ retry.pc = "thrown"
    /\ retry.calls = 1
    /\ maxRetriesOf(retry.opts) > 0
    /\ retry.thrown.status = 403
    /\ retry.thrown.headers.retryAfter = "" /\ retry.thrown.headers.remaining # "0"

\* C16: withRetry ends after at most maxRetries + 1 invocations; it returns
\* the value of the first invocation that succeeds, which is its last; when
\* it throws an error that is retryable, every invocation failed retryably,
\* exactly maxRetries retries were made, and the error thrown is that of the
\* last invocation.
C16_BoundedRetries ==
    /\ [](/\ retry.calls <= maxRetriesOf(retry.opts) + 1
          /\ retry.attempt <= maxRetriesOf(retry.opts)
          /\ (retry.pc = "thrown" /\ TransientError(retry.thrown)) =>
                /\ retry.calls = maxRetriesOf(retry.opts) + 1
                /\ retry.attempt = maxRetriesOf(retry.opts)
                /\ retry.thrown.seq = retry.calls
          /\ retry.pc = "thrown" => retry.thrown = retry.lastError)
    /\ [][/\ \A value \in {"ok", "other"} :
                FnResolves(value) => retry'.pc = "returned" /\ retry'.value = value
          /\ retry.pc \in {"returned", "thrown"} => retry' = retry]_vars

\* with the default of three retries, four invocations failed with 503 and
\* the fourth error was thrown
C16_Witness ==
    /\ retry.pc = "thrown"
    /\ retry.opts.maxRetries = NoOption
    /\ retry.calls = 4
    /\ retry.thrown.status = 503
    /\ retry.thrown.seq = 4

\* the failed response carries a usable delay hint: a retry-after header
\* that is a finite number above zero
UsableRetryAfter(error) ==
    /\ error.headers.retryAfter # ""
    /\ NumberOf(error.headers.retryAfter).finite
    /\ NumberOf(error.headers.retryAfter).n > 0

\* the step that sets the delay before the next retry
DelaySet == retry.pc = "call" /\ retry'.pc = "sleep"

\* C17 (as amended): the delay before retry k is the retry-after value times
\* 1000 ms when the failed response carries a retry-after header that is a
\* finite number above zero, and baseDelayMs * 2^k in every other case.
C17_DelayAmended ==
    [][DelaySet =>
        retry'.delayMs =
            IF UsableRetryAfter(retry'.lastError)
            THEN NumberOf(retry'.lastError.headers.retryAfter).n * 1000
            ELSE baseDelayMsOf(retry.opts) * Pow2(retry.attempt)]_vars

\* C17: the delay before retry k is the retry-after seconds times 1000 ms
\* whenever the failed response carries a retry-after header, and
\* baseDelayMs * 2^k otherwise.
C17_Delay ==
    [][DelaySet =>
        retry'.delayMs =
            IF retry'.lastError.headers.retryAfter # ""
            THEN NumberOf(retry'.lastError.headers.retryAfter).n * 1000
            ELSE baseDelayMsOf(retry.opts) * Pow2(retry.attempt)]_vars

\* the second retry waits four times the default base delay after a 429
\* whose retry-after is "0"
C17_Witness ==
    /\ retry.pc = "sleep"
    /\ retry.attempt = 2
    /\ retry.opts.baseDelayMs = NoOption
    /\ retry.lastError.headers.retryAfter = "0"
    /\ retry.delayMs = 4000


\* the entries of the other keys are as before
OthersKept(key) ==
    \A k \in CacheKeys \ {key} :
        /\ k \in DOMAIN cache'.store <=> k \in DOMAIN cache.store
        /\ k \in DOMAIN cache.store => cache'.store[k] = cache.store[k]

\* the key was set since the last clear, and no more than the TTL ago
Fresh(key) ==
    /\ cache.lastSet[key].set
    /\ cache.clock <= cache.lastSet[key].at + cache.ttlMs

\* C18: get(k) returns the value of the most recent set(k, v) if and only if
\* there was no clear since and the time is at most the set time plus the
\* TTL, and undefined otherwise; a get that finds an expired entry removes
\* it, and nothing else but clear removes an entry; set and get on one key
\* leave every other key's entry as it was.
C18_TtlCache ==
    [][/\ \A key \in CacheKeys :
            CacheGet(key) =>
                /\ cache'.got.key = key
                /\ cache'.got.value =
                      IF Fresh(key) THEN cache.lastSet[key].value ELSE "undefined"
                /\ (key \in DOMAIN cache.store /\ ~Fresh(key)) => key \notin DOMAIN cache'.store
                /\ (Fresh(key) \/ key \notin DOMAIN cache.store) => cache'.store = cache.store
                /\ OthersKept(key)
       /\ \A key \in CacheKeys, value \in CacheValues :
            CacheSet(key, value) =>
                /\ cache'.store[key].value = value
                /\ OthersKept(key)
       /\ CacheTick => cache'.store = cache.store
       /\ CacheClear => cache'.store = <<>>]_vars

\* a get has removed an expired entry while the other key kept its own
C18_Witness ==
    /\ cache.got.key = "config"
    /\ cache.got.value = "undefined"
    /\ cache.lastSet["config"].set
    /\ "config" \notin DOMAIN cache.store
    /\ "tree" \in DOMAIN cache.store
    /\ cache.ttlMs > 0


\* the paths of the base tree that the head tree lacks
BaseMinusHead == Range(ctx.baseFiles) \ Range(ctx.headFiles)

\* the paths the PR description allows this rule to delete: the well-formed
\* lines under this rule's name, by their exact path
AllowlistedPaths ==
    IF ctx.prBody.present
    THEN {ctx.prBody.lines[k].filePath :
             k \in {j \in DOMAIN ctx.prBody.lines :
                       /\ ctx.prBody.lines[j].wellFormed
                       /\ ctx.prBody.lines[j].ruleName = ctx.rule.name}}
    ELSE {}

\* the PR description without the lines of other rules
OwnLinesOnly ==
    [ctx EXCEPT !.prBody.lines =
        SelectSeq(ctx.prBody.lines, LAMBDA line : line.ruleName = ctx.rule.name)]

\* C19: file_presence succeeds if and only if every path of base minus head
\* is allowlisted for this rule's name by its exact path; on failure the
\* missing paths reported are exactly base minus head minus the allowlisted
\* paths, each once; the lines of other rule names change nothing; and the
\* allowlisted deletions are listed in the details of a success as of a
\* failure.
C19_FilePresence ==
    ctx.called =>
        /\ returned.conclusion \in {"success", "failure"}
        /\ returned.conclusion = "success" <=> BaseMinusHead \subseteq AllowlistedPaths
        /\ returned.conclusion = "failure" =>
              /\ Range(returned.details.missing) = BaseMinusHead \ AllowlistedPaths
              /\ Len(returned.details.missing) = Cardinality(BaseMinusHead \ AllowlistedPaths)
              /\ returned.title.n = Cardinality(BaseMinusHead \ AllowlistedPaths)
        /\ {returned.details.allowed[k].filePath : k \in DOMAIN returned.details.allowed}
              = BaseMinusHead \cap AllowlistedPaths
        /\ returned = executeFilePresence(OwnLinesOnly)

\* a failure that reports one missing path and lists one allowed deletion,
\* with a line of another rule naming the missing path
C19_Witness ==
    /\ ctx.called
    /\ returned.conclusion = "failure"
    /\ returned.details.missing = <<"b.sql">>
    /\ Len(returned.details.allowed) = 1
    /\ returned.details.allowed[1].filePath = "a.sql"
    /\ \E k \in DOMAIN ctx.prBody.lines :
          /\ ctx.prBody.lines[k].ruleName = "other-rule"
          /\ ctx.prBody.lines[k].filePath = "b.sql"

\* C20: file_pair with mode all succeeds if and only if every companion is
\* among the changed files, and with mode any, also when no mode is given,
\* if and only if at least one is; a failure lists exactly the companions
\* that are not among the changed files.
C20_FilePair ==
    ctx.called =>
        LET companions == Range(ctx.rule.companion)
            changed == ctx.changedFiles
        IN
        /\ returned.conclusion \in {"success", "failure"}
        /\ ctx.configMode = "all" =>
              (returned.conclusion = "success" <=> companions \subseteq changed)
        /\ ctx.configMode \in {"any", "undefined"} =>
              (returned.conclusion = "success" <=> companions \cap changed # {})
        /\ returned.conclusion = "failure" =>
              /\ Range(returned.summary.names) = companions \ changed
              /\ returned.summary.names =
                    SelectSeq(ctx.rule.companion, LAMBDA c : c \notin changed)

\* mode all failed with one of two companions changed, and lists the other
C20_Witness ==
    /\ ctx.called
    /\ ctx.configMode = "all"
    /\ ctx.rule.companion = <<"package-lock.json", "yarn.lock">>
    /\ ctx.changedFiles = {"package.json", "package-lock.json"}
    /\ returned.conclusion = "failure"
    /\ returned.summary.names = <<"yarn.lock">>

\* whole days between the merge base and now, rounded down
WholeDays == (ctx.now - ctx.mergeBaseDate.time) \div (86400 * 1000)

\* C21: branch_age passes if and only if the merge-base date is there and
\* the whole days elapsed since it, rounded down, are at most max_age_days:
\* exactly max_age_days old passes, a day more fails; when the date is
\* unavailable the result is the failure "Unable to determine branch age",
\* never a success.
C21_BranchAge ==
    ctx.called =>
        /\ returned.conclusion \in {"success", "failure"}
        /\ returned.conclusion = "success" <=>
              /\ ctx.mergeBaseDate.present
              /\ ctx.mergeBaseDate.valid
              /\ WholeDays <= ctx.rule.max_age_days
        /\ ~ctx.mergeBaseDate.present =>
              /\ returned.conclusion = "failure"
              /\ returned.title.head = "Unable to determine branch age"
        /\ (ctx.mergeBaseDate.valid /\ ctx.now - ctx.mergeBaseDate.time
                = ctx.rule.max_age_days * 86400 * 1000) => returned.conclusion = "success"
        /\ (ctx.mergeBaseDate.valid /\ ctx.now - ctx.mergeBaseDate.time
                = (ctx.rule.max_age_days + 1) * 86400 * 1000) => returned.conclusion = "failure"

\* a merge base exactly max_age_days old has passed
C21_Witness ==
    /\ ctx.called
    /\ ctx.mergeBaseDate.valid
    /\ ctx.now - ctx.mergeBaseDate.time = ctx.rule.max_age_days * 86400 * 1000
    /\ returned.conclusion = "success"
    /\ returned.title.n = ctx.rule.max_age_days

(***************************************************************************)
(* approval_gate, stated on the listing of reviews itself.                 *)
(***************************************************************************)
\* the reviews of one reviewer that decide: APPROVED or CHANGES_REQUESTED
DecidingReviews(u) ==
    {k \in DOMAIN ctx.reviews :
        /\ toLowerCase(ctx.reviews[k].user.login) = u
        /\ ctx.reviews[k].state \in {"APPROVED", "CHANGES_REQUESTED"}}

Reviewers == {toLowerCase(ctx.reviews[k].user.login) : k \in DOMAIN ctx.reviews}

\* the state of a reviewer: that of the last deciding review, if there is one
ReviewerState(u) ==
    IF DecidingReviews(u) = {} THEN "NONE"
    ELSE ctx.reviews[CHOOSE k \in DecidingReviews(u) :
                        \A j \in DecidingReviews(u) : j <= k].state

Blocking == {u \in Reviewers : ReviewerState(u) = "CHANGES_REQUESTED"}

Approving == {u \in Reviewers : ReviewerState(u) = "APPROVED"}

GateAnswered == ctx.called /\ returned.conclusion # "error"

\* the valid approvers of a required team: its members, none on 404 or 403
ValidForTeam(team) ==
    IF ctx.teams[team].status = 200
    THEN {toLowerCase(m) : m \in ctx.teams[team].members} ELSE {}

UnmetTeams ==
    {ctx.rule.required_teams[k] : k \in DOMAIN ctx.rule.required_teams} \
    {t \in Range(ctx.rule.required_teams) : ValidForTeam(t) \cap Approving # {}}

UnmetUsers ==
    {u \in Range(ctx.rule.required_users) : toLowerCase(u) \notin Approving}

RequirementCount == Len(ctx.rule.required_teams) + Len(ctx.rule.required_users)

UnmetCount == Cardinality(UnmetTeams) + Cardinality(UnmetUsers)

MissingApprovals ==
    /\ GateAnswered
    /\ ctx.rule.auto_request_reviewers
    /\ returned.conclusion = "failure"
    /\ returned.title.head = "Approval required from:"

\* C29: with auto_request_reviewers enabled and the gate failing for missing
\* approvals, review is requested from exactly the users and teams of the
\* unmet requirements; nothing is requested when changes were requested.
C29_RequestsReviewers ==
    /\ MissingApprovals =>
          {r \in returned.requests : r.kind = "POST requested_reviewers"} =
              {[kind |-> "POST requested_reviewers", who |-> n] :
                  n \in UnmetTeams \cup UnmetUsers}
    /\ (GateAnswered /\ Blocking # {}) =>
          {r \in returned.requests : r.kind = "POST requested_reviewers"} = {}

\* the rule enables the option, an approval is missing
C29_Witness ==
    /\ MissingApprovals
    /\ UnmetUsers = {"Alice"}
    /\ returned.requests = {[kind |-> "GET reviews", who |-> ""]}

\* C26: when evaluateRules has completed, with every call answered, a check
\* run exists on the head commit for every rule that applies to the base
\* branch, and the run of a rule that matches no changed file is completed
\* with success; so also on the first evaluation, no run existing before.
C26_CheckForEveryRule ==
    (phase = "done" /\ faults = 0) =>
        \A i \in RuleIds :
            pr.baseBranch \in config[i].branches =>
                /\ Len(checkRuns[checkRunName(config[i].name)]) > 0
                /\ NoFileMatches(config[i], pr.changedFiles) =>
                      /\ LastRun(checkRuns, checkRunName(config[i].name)).status = "completed"
                      /\ LastRun(checkRuns, checkRunName(config[i].name)).conclusion = "success"

\* a first evaluation has completed and left a rule that applies to the base
\* branch, and matches no file, without a check run
C26_Witness ==
    /\ phase = "done"
    /\ faults = 0
    /\ \E i \in RuleIds :
          /\ pr.baseBranch \in config[i].branches
          /\ NoFileMatches(config[i], pr.changedFiles)
          /\ Request("find", config[i].name) \in reqs
          /\ checkRuns[checkRunName(config[i].name)] = <<>>

\* the rule of the evaluation the handler is completing has notify not false
HandlerRuleNotifies ==
    \E i \in RuleIds :
        /\ config[i].name = Head(handler.evals).ruleName
        /\ config[i].notify

\* a rule with notify not false whose latest check run is completed with failure
FailingNotifiable(runs) ==
    {i \in RuleIds :
        /\ config[i].notify
        /\ Len(runs[checkRunName(config[i].name)]) > 0
        /\ LastRun(runs, checkRunName(config[i].name)).status = "completed"
        /\ LastRun(runs, checkRunName(config[i].name)).conclusion = "failure"}

\* the check_run.completed handler completes a check run as its last act,
\* with no pass in flight
HandlerCompletes(conclusion) ==
    /\ HandlerWrite
    /\ handler.result.conclusion = conclusion
    /\ HandlerRuleNotifies
    /\ handler'.pc = "idle"
    /\ phase = "idle"

\* C28: when the reactive check_run.completed resolution completes the check
\* of a rule with notify not false with failure, the sticky comment shows the
\* failure afterwards; when it completes the last failing check with success,
\* the comment shows the resolved body.
C28_CommentFollowsResolution ==
    [][/\ HandlerCompletes("failure") => comment' = "failure"
       /\ (HandlerCompletes("success") /\ comment = "failure"
           /\ FailingNotifiable(checkRuns') = {}) => comment' = "success"]_vars

\* the handler has completed a pending check with the failure of a timeout,
\* which no pass reports, and the pull request has no sticky comment
C28_Witness ==
    /\ phase = "idle"
    /\ handler.pc = "idle"
    /\ FailingNotifiable(checkRuns) # {}
    /\ \A i \in FailingNotifiable(checkRuns) :
          LastRun(checkRuns, checkRunName(config[i].name)).output.title.head =
              "Timed out waiting for required checks"
    /\ comment = NoComment

(***************************************************************************)
(* Bulk re-evaluation                                                      *)
(***************************************************************************)
InFlight == {p \in 1..MaxPrs : bulk.evals[p] = "running"}

\* evaluations start in this step
Started == {p \in 1..MaxPrs : bulk.evals[p] # "running" /\ bulk'.evals[p] = "running"}

\* the pull requests the listing of a repository returned
Listed(r) ==
    IF bulk.repos[r].config = "loaded" THEN 1..bulk.repos[r].openPrs ELSE {}

\* C25: bulk re-evaluation runs in consecutive batches of 5: at most 5
\* evaluations are in flight; a batch starts only when no evaluation is
\* running, holds the next 5 pull requests of the listing (or what is left),
\* and, when it is not the first of its repository, starts no sooner than
\* 500 ms after the latest settlement; no pull request is attempted twice, and
\* when the run is over every listed pull request of every repository was
\* attempted once, whatever evaluation or repository failed before it.
C25_Batches ==
    /\ [](Cardinality(InFlight) <= 5)
    /\ [](\A r \in DOMAIN bulk.repos : \A p \in 1..MaxPrs :
             /\ bulk.attempts[r][p] <= 1
             /\ bulk.attempts[r][p] = 1 => p \in Listed(r))
    /\ [](bulk.pc = "done" =>
             \A r \in DOMAIN bulk.repos : \A p \in Listed(r) : bulk.attempts[r][p] = 1)
    /\ [][Started # {} =>
             /\ InFlight = {}
             /\ \E first \in 1..MaxPrs :
                   /\ Started = {p \in Listed(bulk.r) : first <= p /\ p < first + 5}
                   /\ \A p \in Listed(bulk.r) : p < first <=> bulk.attempts[bulk.r][p] = 1
             /\ bulk.batches > 0 => bulk'.time >= bulk.settledAt + 500]_vars

\* the first repository could not be processed; in the second a pull request
\* of the first batch threw, and the run ended with every one of its pull
\* requests attempted once, in two batches
C25_Witness ==
    /\ bulk.pc = "done"
    /\ Len(bulk.repos) = 2
    /\ bulk.repos[1].config = "throws"
    /\ bulk.repos[2] = Repository("loaded", MaxPrs)
    /\ 2 \in bulk.failed
    /\ bulk.batches = 2
    /\ \A p \in 1..MaxPrs : bulk.attempts[2][p] = 1

(***************************************************************************)
(* Webhook handlers                                                        *)
(***************************************************************************)
HookRunName == "branch-guard/migration-sync"

\* a delivery was handled in this step
DeliveryHandled == hook'.events = hook.events + 1

\* the delivery is one that loads the configuration on the pull_request,
\* /recheck or check_suite path
ConfigTrigger ==
    /\ DeliveryHandled
    /\ \/ hook'.last \in {"opened", "reopened", "synchronize", "recheck", "check_suite"}
       \/ hook'.last = "edited" /\ hook'.base # hook.base

\* C24: when the configuration is invalid on a pull_request, /recheck or
\* check_suite trigger, one completed check run "branch-guard/config" with
\* conclusion failure, whose summary lists every validation error, is added
\* on the head commit, and no rule is evaluated: no rule check run is created
\* or updated and the sticky comment is left as it was.
C24_ConfigError ==
    [][(ConfigTrigger /\ hook.config.status = "invalid") =>
          /\ hook'.runs[hook'.sha]["branch-guard/config"] =
                Append(hook.runs[hook'.sha]["branch-guard/config"],
                       [status |-> "completed", conclusion |-> "failure",
                        output |-> hook'.runs[hook'.sha]["branch-guard/config"][
                                      Len(hook'.runs[hook'.sha]["branch-guard/config"])].output])
          /\ hook'.runs[hook'.sha]["branch-guard/config"][
                 Len(hook'.runs[hook'.sha]["branch-guard/config"])].output.summary.names =
                    hook.config.errors
          /\ \A s \in 1..MaxCommits : hook'.runs[s][HookRunName] = hook.runs[s][HookRunName]
          /\ hook'.comment = hook.comment
          /\ hook'.evaluations = hook.evaluations]_vars

\* /recheck on a configuration with two validation errors
C24_Witness ==
    /\ hook.last = "recheck"
    /\ hook.config.status = "invalid"
    /\ Len(hook.config.errors) = 2
    /\ Len(hook.runs[1]["branch-guard/config"]) = 1
    /\ hook.runs[1]["branch-guard/config"][1].output.summary.names = hook.config.errors
    /\ hook.runs[1][HookRunName] = <<>>

\* the paths the description allows for the rule
AllowedPaths(body) ==
    IF ~body.present THEN {}
    ELSE {body.lines[k].filePath : k \in {j \in DOMAIN body.lines :
             body.lines[j].wellFormed /\ body.lines[j].ruleName = HookRule.name}}

\* what file_presence concludes under the description as it is
ExpectedConclusion(h) ==
    IF (h.base \ h.head) \subseteq AllowedPaths(h.body) THEN "success" ELSE "failure"

LatestConclusion(h) ==
    IF h.runs[h.sha][HookRunName] = <<>> THEN "none"
    ELSE h.runs[h.sha][HookRunName][Len(h.runs[h.sha][HookRunName])].conclusion

\* C27: a pull_request edited event that changes only the description of the
\* pull request is followed by a re-evaluation, after which the file_presence
\* check reflects the allowlist of the new description.
C27_BodyEditReevaluates ==
    [][(/\ DeliveryHandled
        /\ hook'.last = "edited"
        /\ hook'.body # hook.body
        /\ hook'.base = hook.base
        /\ hook.config.status = "loaded") =>
            /\ hook'.evaluations = hook.evaluations + 1
            /\ LatestConclusion(hook') = ExpectedConclusion(hook')]_vars

\* the description was edited to allow the missing file, and the check still
\* shows the failure of the evaluation before the edit
C27_Witness ==
    /\ hook.last = "edited"
    /\ hook.config.status = "loaded"
    /\ hook.under.evaluated
    /\ hook.under.body # hook.body
    /\ hook.under.base = hook.base
    /\ ExpectedConclusion(hook) = "success"
    /\ LatestConclusion(hook) = "failure"

\* C30: an evaluation of a commit that was evaluated before, under the same
\* description and trees, through whatever trigger, leaves the rule's check
\* runs on that commit and the sticky comment as they were.
C30_SameOutcome ==
    [][(/\ DeliveryHandled
        /\ hook'.evaluations = hook.evaluations + 1
        /\ hook.under = Snapshot(hook')) =>
            /\ hook'.runs[hook'.sha][HookRunName] = hook.runs[hook.sha][HookRunName]
            /\ hook'.comment = hook.comment]_vars

\* the pull request, whose description allows the missing file, was reopened
\* on the commit that /recheck had evaluated before: one check run, now failed
C30_Witness ==
    /\ hook.last = "reopened"
    /\ hook.evaluations = 2
    /\ hook.events = 2
    /\ hook.under = Snapshot(hook)
    /\ ExpectedConclusion(hook) = "success"
    /\ hook.base \ hook.head # {}
    /\ Len(hook.runs[hook.sha][HookRunName]) = 1
    /\ LatestConclusion(hook) = "failure"
    /\ hook.comment.kind = "failure"

(***************************************************************************)
(* Reactive path and fallback path                                         *)
(***************************************************************************)
\* the evaluation is not past its deadline at the call
WithinDeadline ==
    ctx.now - ctx.evaluation.createdAt <= ctx.evaluation.timeoutMinutes * 60 * 1000

\* C31: for every list of required names, every state of the remote check
\* runs and a PendingEvaluation not past its deadline, resolveIfReady returns
\* null exactly when execute returns a "Waiting for:" result, and otherwise
\* both return the same conclusion, title and summary.
C31_SameClassification ==
    (ctx.executed /\ ctx.resolved /\ WithinDeadline) =>
        /\ (returned.resolveIfReady = NullResult) <=>
               (returned.execute.title.head = "Waiting for:")
        /\ returned.resolveIfReady # NullResult =>
               /\ returned.resolveIfReady.conclusion = returned.execute.conclusion
               /\ returned.resolveIfReady.title = returned.execute.title
               /\ returned.resolveIfReady.summary = returned.execute.summary

\* both paths ran at the deadline to the millisecond and report the failed
\* required check
C31_Witness ==
    /\ ctx.executed
    /\ ctx.resolved
    /\ ctx.now = ctx.evaluation.timeoutMinutes * 60 * 1000
    /\ ctx.rule.required_checks = <<"lint", "build">>
    /\ ctx.allRuns["build"] = Run("completed", "neutral")
    /\ ctx.allRuns["lint"] = Run("in_progress", "null")
    /\ returned.execute.conclusion = "failure"
    /\ returned.resolveIfReady = returned.execute
    /\ returned.execute.title.names = <<"build">>

(***************************************************************************)
(* The pending-evaluation store over time                                  *)
(***************************************************************************)
\* C32: while a PendingEvaluation stays in the store under its key, its
\* createdAt, and with it the deadline createdAt + timeoutMinutes, does not
\* move: a later evaluation that finds the rule unresolved again keeps the
\* time of the first one.
C32_CreatedAtKept ==
    [][\A k \in DOMAIN pendingEvaluations :
          LET key == pendingEvaluations[k].key IN
          hasPendingEvaluation(pendingEvaluations', key) =>
              getPendingEvaluation(pendingEvaluations', key).createdAt =
                  pendingEvaluations[k].evaluation.createdAt]_vars

\* a pass that found the rule's check run already there has stored the
\* evaluation with the time of this pass, later than the start
C32_Witness ==
    \E i \in RuleIds :
        /\ phase = "running"
        /\ tasks[i].pc = "pendwrite"
        /\ Request("create", config[i].name) \notin reqs
        /\ Request("update", config[i].name) \in reqs
        /\ faults = 0
        /\ hasPendingEvaluation(pendingEvaluations,
                                getPendingKey(Owner, Repo, HeadSha, config[i].name))
        /\ getPendingEvaluation(pendingEvaluations,
               getPendingKey(Owner, Repo, HeadSha, config[i].name)).createdAt = now
        /\ now > 0

(***************************************************************************)
(* The frame of the check_run.completed handler                            *)
(***************************************************************************)
\* the stored evaluations a delivery is about: the repository of the
\* delivery, its head SHA, the completed name among the required checks
Concerned(h) ==
    {e \in Range(StoredPool) :
        /\ e.evaluation.repo = Repo
        /\ e.evaluation.headSha = h.delivery.headSha
        /\ h.delivery.name \in Range(e.evaluation.requiredChecks)}

StartsWithPrefix(name) == name \in {"branch-guard/lint-check", "branch-guard/config"}

\* C33: a delivery whose name starts with "branch-guard/" makes no query, no
\* write and no change of the store.  For any other name only the stored
\* evaluations of the same repository and head SHA that require the name are
\* removed or written: every other entry stays in the store, every other
\* check run stays as it was, and check runs are listed for the delivery's
\* commit only.  When the handler is over each of the concerned evaluations
\* was taken up, whatever raised before it.
C33_HandlerFrame ==
    [][/\ StartsWithPrefix(hook'.delivery.name) =>
             /\ hook'.store = hook.store
             /\ hook'.runs = hook.runs
             /\ hook'.queries = {}
             /\ hook'.taken = {}
       /\ \A e \in Range(hook.store) \ Concerned(hook') : e \in Range(hook'.store)
       /\ Range(hook'.store) \subseteq Range(hook.store)
       /\ \A n \in DOMAIN hook.runs : \A k \in DOMAIN hook.runs[n] :
             hook'.runs[n][k] # hook.runs[n][k] =>
                 \E e \in Concerned(hook') : e.evaluation.checkRunId = RunId(n, k)
       /\ hook'.queries \subseteq {hook'.delivery.headSha}
       /\ hook'.pc = "done" =>
             \A e \in Range(hook'.store) \cap Concerned(hook') :
                 StartsWithPrefix(hook'.delivery.name) \/ e.evaluation \in hook'.taken]_vars

\* "lint" completed on the commit of two pending rules that are both ready:
\* resolving the first one raised and left it stored, the second one was
\* completed all the same; the entries of the other commit and of the other
\* repository are still stored
C33_Witness ==
    /\ hook.pc = "done"
    /\ hook.delivery = [headSha |-> HeadSha, name |-> "lint"]
    /\ hook.allRuns = [n \in {"lint", "typecheck"} |-> Run("completed", "success")]
    /\ StoredPool[1] \in Range(hook.store)
    /\ StoredPool[1].evaluation \in hook.taken
    /\ hook.runs["branch-guard/manifest-check"][1].status = "completed"
    /\ hook.runs["branch-guard/lint-check"][1].status = "in_progress"
    /\ {StoredPool[3], StoredPool[4]} \subseteq Range(hook.store)

(***************************************************************************)
(* The order of the steps of one evaluateRules pass                        *)
(***************************************************************************)
\* the check type answered for rule i in this step
Answered(i) == tasks[i].raw = NullResult /\ tasks'[i].raw # NullResult

\* the record the one write after the result leaves in the rule's check run
WrittenAfterResult(i) ==
    IF startsWithWaitingFor(tasks[i].result.title)
    THEN [status |-> "in_progress", conclusion |-> "null",
          output |-> Output(tasks[i].result.title, tasks[i].result.summary)]
    ELSE [status |-> "completed", conclusion |-> tasks[i].result.conclusion,
          output |-> Output(tasks[i].result.title, tasks[i].result.summary)]

\* C34: within one pass, the check of a matching rule is created or set
\* in_progress before its check type answers; the task that holds the result
\* makes one write, the completed result or in_progress with the waiting
\* output, and settles with it; no other step of the pass touches the check
\* of a rule whose task is not at a write; and the Notification Manager is
\* called only when every task has settled and the internal-error fallback
\* of every rejected one is over.
C34_PassOrder ==
    [][\A i \in DOMAIN config :
         LET name == checkRunName(config[i].name) IN
         /\ Answered(i) =>
               /\ tasks[i].run # NoId
               /\ reqs \cap {Request("create", config[i].name),
                             Request("update", config[i].name)} # {}
         /\ (tasks[i].raw # NullResult /\ tasks[i].pc # "fulfilled"
               /\ tasks'[i].pc = "fulfilled") =>
               checkRuns'[name][tasks[i].run.n] = WrittenAfterResult(i)
         /\ (phase = "running" /\ handler' = handler /\ checkRuns'[name] # checkRuns[name]) =>
               \/ tasks[i].pc \in {"autopass", "inprog", "pendwrite", "finalwrite"}
                    /\ tasks'[i].pc # tasks[i].pc
               \/ tasks[i].pc = "rejected" /\ i \in errDone' \ errDone
         /\ handed'.call # handed.call /\ handed'.call # "none" =>
               /\ \A j \in DOMAIN config : tasks[j].pc \in {"none", "fulfilled", "rejected"}
               /\ \A j \in DOMAIN config : tasks[j].pc = "rejected" => j \in errDone]_vars

\* the pass handed its failures over after one rule was completed by its
\* task and the other one by the internal-error fallback
C34_Witness ==
    /\ phase = "done"
    /\ handed.call = "failure"
    /\ errorFailures # {}
    /\ \E i \in DOMAIN config : tasks[i].pc = "fulfilled" /\ tasks[i].value = "result"

(***************************************************************************)
(* Transient answers while a trigger is handled                            *)
(***************************************************************************)
\* C35: one request of the trigger answered 429/500/502/503 and answered
\* well when asked again never ends the handling as a failed evaluation or
\* as an "Internal error" check: every request is retried by withRetry.
C35_TransientAbsorbed ==
    retry.pc = "done" => retry.outcome = "evaluated"

\* the flaky request was one made inside withRetry: it was asked again and
\* the rule was evaluated
C35_Witness ==
    /\ retry.pc = "done"
    /\ retry.outcome = "evaluated"
    /\ retry.retried = {"list check runs"}

(***************************************************************************)
(* Check names of accepted rule names                                      *)
(***************************************************************************)
\* C36: the check name of a rule name the schema accepts is never the name
\* of the configuration check, and two different accepted rule names never
\* have the same check name.
C36_NamesApart ==
    /\ \A k \in {1, 2} : returned[k].accepted => returned[k].checkName # CONFIG_CHECK_NAME_chars
    /\ (returned[1].accepted /\ returned[2].accepted /\ ctx.names[1] # ctx.names[2]) =>
          returned[1].checkName # returned[2].checkName

\* two different names were accepted, hyphens and digits among their
\* characters, and their check names differ
C36_Witness ==
    /\ returned[1].accepted
    /\ returned[2].accepted
    /\ ctx.names[1] = <<"a", "-">>
    /\ ctx.names[2] = <<"a", "1">>
    /\ returned[1].checkName # returned[2].checkName

(***************************************************************************)
(* A fallback evaluation and the check_run.completed handler interleaved   *)
(***************************************************************************)
\* rule i is an external_status rule whose fallback evaluation of this pass
\* has finished as waiting, with no call failed and no deadline passed
FallbackFinishedWaiting(i) ==
    /\ i \in DOMAIN config
    /\ config[i].check_type = "external_status"
    /\ phase # "idle"
    /\ tasks[i].pc = "fulfilled"
    /\ startsWithWaitingFor(tasks[i].result.title)
    /\ faults = 0
    /\ now <= config[i].timeout_minutes * 60 * 1000

\* the reactive path is over and has resolved rule i: no handler is running
\* and the rule's PendingEvaluation has left the store
ReactiveResolved(i) ==
    /\ handler.pc = "idle"
    /\ ~hasPendingEvaluation(pendingEvaluations,
                             <<Owner, Repo, HeadSha, config[i].name>>)

RequiredAllSuccess(i) ==
    \A k \in DOMAIN config[i].required_checks :
        /\ config[i].required_checks[k] \in DOMAIN allRuns
        /\ allRuns[config[i].required_checks[k]] = Run("completed", "success")

\* C37: once a fallback evaluation of an external_status rule and the
\* check_run.completed handler that resolved the rule have both finished and
\* every required check is completed with success, the rule's check is
\* completed with success, whatever the order of their steps was.
C37_InterleavingConverges ==
    \A i \in DOMAIN config :
        (FallbackFinishedWaiting(i) /\ ReactiveResolved(i) /\ RequiredAllSuccess(i)) =>
            LET run == checkRuns[checkRunName(config[i].name)][tasks[i].run.n] IN
            run.status = "completed" /\ run.conclusion = "success"

\* the fallback finished first and the handler resolved the rule afterwards:
\* the check is completed with success and nothing is pending
C37_Witness ==
    \E i \in DOMAIN config :
        /\ FallbackFinishedWaiting(i)
        /\ ReactiveResolved(i)
        /\ RequiredAllSuccess(i)
        /\ checkRuns[checkRunName(config[i].name)][tasks[i].run.n].status = "completed"
        /\ checkRuns[checkRunName(config[i].name)][tasks[i].run.n].conclusion = "success"

(***************************************************************************)
(* Completed checks and the pending store                                  *)
(***************************************************************************)
\* a step of the pass (not of the handler) leaves a check run of rule i
\* completed that was not so before
PassCompletes(i) ==
    LET name == checkRunName(config[i].name) IN
    /\ handler' = handler
    /\ checkRuns'[name] # checkRuns[name]
    /\ LastRun(checkRuns', name).status = "completed"

\* C38: whenever the pass completes a rule's check (success, failure, the
\* "Rule not applicable" auto-pass or "Internal error"), the store holds no
\* PendingEvaluation for the rule on that commit.
C38_NoPendingOnceCompleted ==
    [][\A i \in DOMAIN config :
          PassCompletes(i) =>
              ~hasPendingEvaluation(pendingEvaluations',
                                    <<Owner, Repo, HeadSha, config[i].name>>)]_vars

\* a pass has completed with success the check of an external_status rule
\* it found in_progress from an earlier pass; the entry that pass had stored
\* is gone
C38_Witness ==
    \E i \in DOMAIN config :
        /\ config[i].check_type = "external_status"
        /\ phase = "running"
        /\ tasks[i].pc = "fulfilled"
        /\ tasks[i].value = "result"
        /\ tasks[i].result.conclusion = "success"
        /\ Request("update", config[i].name) \in reqs
        /\ Request("create", config[i].name) \notin reqs
        /\ LastRun(checkRuns, checkRunName(config[i].name)).status = "completed"
        /\ pendingEvaluations = <<>>

(***************************************************************************)
(* Check runs per name on a commit                                         *)
(***************************************************************************)
\* C39: a commit never has two check runs of the same check name: the rule's
\* run is found and updated by later evaluations, and repeated triggers on
\* an invalid configuration leave a single "branch-guard/config" run.
C39_OneRunPerName ==
    \A s \in 1..MaxCommits : \A n \in HookCheckNames : Len(hook.runs[s][n]) <= 1

\* the rule was evaluated twice on the first commit, one after the other,
\* and the commit has one run of the rule's check
C39_Witness ==
    /\ hook.sha = 1
    /\ hook.evaluations = 2
    /\ hook.config.status = "loaded"
    /\ Len(hook.runs[1][HookRunName]) = 1
    /\ hook.runs[1]["branch-guard/config"] = <<>>

(***************************************************************************)
(* The failure_message override on the reactive path                       *)
(***************************************************************************)
\* the handler completes the check of rule i with failure in this step
ReactiveFailureWrite(i) ==
    /\ handler.pc = "write"
    /\ handler.evals # <<>>
    /\ Head(handler.evals).ruleName = config[i].name
    /\ checkRuns' # checkRuns
    /\ LastRun(checkRuns', checkRunName(config[i].name)).conclusion = "failure"

\* what a fallback evaluation writes for rule i on the remote state as it is
FallbackWrite(i) ==
    applyFailureMessage(config[i],
                        execute(config[i], HeadSha, allRuns, pendingEvaluations).result)

\* C40: for an external_status rule with a failure_message, a failure the
\* check_run.completed handler writes has the title and the summary a
\* fallback evaluation writes for the same failed required checks: the
\* configured texts.
C40_SameFailureText ==
    [][\A i \in DOMAIN config :
          (/\ config[i].check_type = "external_status"
           /\ config[i].failure_message.present
           /\ ReactiveFailureWrite(i)
           /\ FallbackWrite(i).conclusion = "failure") =>
              LastRun(checkRuns', checkRunName(config[i].name)).output =
                  Output(FallbackWrite(i).title, FallbackWrite(i).summary)]_vars

\* the handler has completed with failure the check of a rule that
\* configures its own title and summary, a required check having failed
C40_Witness ==
    \E i \in DOMAIN config :
        /\ config[i].check_type = "external_status"
        /\ config[i].failure_message = FailureMessage(Undefined, CustomSummary)
        /\ handler.pc = "idle"
        /\ phase = "idle"
        /\ pendingEvaluations = <<>>
        /\ allRuns["lint"] = Run("completed", "failure")
        /\ checkRuns[checkRunName(config[i].name)] # <<>>
        /\ LastRun(checkRuns, checkRunName(config[i].name)).conclusion = "failure"
        /\ LastRun(checkRuns, checkRunName(config[i].name)).output.title.head =
              "Required check failed"

====
